---- MODULE Spec2Model ----
\* A model of gateway-pro: the request dispatcher (internal/proxy), the
\* per-backend circuit breaker (internal/circuitbreaker), the load balancer's
\* backend records (internal/loadbalancer), the local sliding-window rate
\* limiter (internal/ratelimiter), the health checker (internal/health) and
\* the configuration watcher (internal/config), with the reload loop of main.
\*
\* Time is counted in whole seconds.  Strings that the code takes apart
\* (request paths, route prefixes) are sequences of characters.
EXTENDS Integers, Sequences, FiniteSets, TLC

VARIABLES
    now,        \* time.Now(), in seconds
    cb,         \* breaker specification: the Breaker under test
    cbLast,     \* breaker specification: the last call made on cb, with cb before it
    cbEnv,      \* breaker specification: "any" outcomes and time, or a "burst" of failures
    cbCalls,    \* breaker specification: number of RecordFailure calls made in a burst
    cbEpisode,  \* breaker specification: what the last half-open episode has seen
    mRoutes,    \* matching specification: the prefixes of the route table, in order
    mPath,      \* matching specification: the path of the last request on mRoutes
    mMatched,   \* matching specification: the route ServeHTTP matched (0: none, 404)
    file,       \* the configuration file: [id, valid], id counting its writes
    fswEvents,  \* fsw.Events: write events not yet read by the watcher goroutine
    debounce,   \* the watcher goroutine's debounce timer is armed
    done,       \* Watcher.done is closed and the watcher goroutine has returned
    updates,    \* Watcher.updates: the buffered channel (capacity 1) of configs
    reloadPc,   \* main's reload goroutine: "recv" (waiting on Updates) or "reload"
    newCfg,     \* main's reload goroutine: the config it last received
    applied,    \* the config the gateway was last built from (NewGateway, Reload)
    gwRoutes,   \* Gateway.routes: the current route table, a sequence of route ids
    heap,       \* the route objects ever built, by route id <<load, index>>
    checkers,   \* the route ids whose health.Checker goroutine is running
    req,        \* the requests: position in ServeHTTP/serveProxy, locals, response
    loads,      \* number of times the configuration has been (re)loaded
    probes,     \* number of health probes made
    installed,  \* the route tables that have been gw.routes so far
    lastLoad,   \* what the last load came to: "invalid", "build failed", "installed"
    lb,         \* balancer specification: the Balancer under test
    lbHist,     \* balancer specification: the selections since the alive set last changed
    lbLast,     \* balancer specification: the last Next call, with lb before it
    lmt,        \* limiter specification: the Limiter under test
    lmtHist,    \* limiter specification: per key, the Allow calls made and their results
    lmtLast,    \* limiter specification: the last Allow call, with lmt before it
    lmtProc,    \* concurrent limiter specification: goroutines, bucket objects, locks
    cbFlight,   \* probe specification: the admitted requests whose outcome is due
    redis,      \* the rate limit store: per key, the sorted set of the Lua script
    endpoint    \* health specification: per backend URL, how /healthz answers

cbVars == <<cb, cbLast, cbEnv, cbCalls, cbEpisode, cbFlight>>

mVars == <<mRoutes, mPath, mMatched>>

wVars == <<file, fswEvents, debounce, done, updates, reloadPc, newCfg, applied>>

lVars == <<lb, lbHist, lbLast>>

rVars == <<lmt, lmtHist, lmtLast, lmtProc>>

hVars == <<endpoint>>

gVars == <<gwRoutes, heap, checkers, req, loads, probes, installed, lastLoad,
          redis>>

vars == <<now, cb, cbLast, cbEnv, cbCalls, cbEpisode, mRoutes, mPath, mMatched,
          file, fswEvents, debounce, done, updates, reloadPc, newCfg, applied,
          gwRoutes, heap, checkers, req, loads, probes, installed, lastLoad,
          lb, lbHist, lbLast, lmt, lmtHist, lmtLast, lmtProc, cbFlight, redis,
          endpoint>>

\* ---------------------------------------------------------------------------
\* Bounds of the model
\* ---------------------------------------------------------------------------

\* The breaker specification lets time run to MaxTime seconds.
MaxTime == 11

\* The breaker specification stops recording once the window holds MaxWindow
\* observations.
MaxWindow == 3

\* The matching specification builds route tables of up to MaxRoutes routes.
MaxRoutes == 3

\* The watcher specification writes the configuration file up to MaxWrites
\* times.
MaxWrites == 3

\* The gateway specification serves NumReqs requests, reloads the
\* configuration up to MaxLoads times, probes backend health up to MaxProbes
\* times and lets time run to GwMaxTime seconds.
NumReqs == 2

MaxLoads == 1

\* The balancer specification makes up to MaxCalls calls of Next and lets up
\* to MaxInflight requests be in flight on a backend.
MaxCalls == 9

MaxInflight == 2

MaxProbes == 1

\* Requests of the end-to-end breaker scenario.
NumTrip == 5

\* Limiter specification: the time it runs for, and the Allow calls per key.
LmtMaxTime == 3

MaxAllows == 4

GwMaxTime == 2

\* ---------------------------------------------------------------------------
\* Generic helpers
\* ---------------------------------------------------------------------------

None == "none"

\* The sequences over S of length 0..n.
SeqsUpTo(S, n) == UNION {[1..k -> S] : k \in 0..n}

\* ---------------------------------------------------------------------------
\* Each specification below drives one part of the program; the variables of
\* the other parts then keep these values.
\* ---------------------------------------------------------------------------

CBIdle ==
    /\ cb = None /\ cbLast = None /\ cbEnv = None /\ cbCalls = 0
    /\ cbEpisode = None /\ cbFlight = None

LIdle == lb = None /\ lbHist = None /\ lbLast = None

RIdle == lmt = None /\ lmtHist = None /\ lmtLast = None /\ lmtProc = None

HIdle == endpoint = None

MIdle == mRoutes = <<>> /\ mPath = <<>> /\ mMatched = 0

WIdle ==
    /\ file = None /\ fswEvents = 0 /\ debounce = FALSE /\ done = FALSE
    /\ updates = <<>> /\ reloadPc = None /\ newCfg = 0 /\ applied = 0

GIdle ==
    /\ gwRoutes = <<>> /\ heap = <<>> /\ checkers = {} /\ req = <<>>
    /\ loads = 0 /\ probes = 0 /\ installed = {} /\ lastLoad = None
    /\ redis = None

\* ---------------------------------------------------------------------------
\* internal/circuitbreaker
\* ---------------------------------------------------------------------------

stateClosed == "closed"

stateOpen == "open"

stateHalfOpen == "half-open"

\* const rollingWindow = 10 * time.Second
rollingWindow == 10

\* The defaults New applies to a zero field.
defaultMinRequests == 20

defaultFailureThreshold == 50

defaultOpenDurationSeconds == 30

defaultHalfOpenRequests == 5

\* A nil *Breaker (New returns nil when the route configures no breaker).
NilBreaker == [nil |-> TRUE]

\* A nil *config.CircuitBreakerConfig.
NilCfg == [nil |-> TRUE]

CBConfig(thr, min, dur, half) ==
    [FailureThreshold |-> thr, MinRequests |-> min,
     OpenDurationSeconds |-> dur, HalfOpenRequests |-> half]

\* circuitbreaker.New: nil for a nil config, else a Closed breaker holding a
\* copy of the config with its zero fields defaulted.
NewBreaker(cfg) ==
    IF cfg = NilCfg THEN NilBreaker
    ELSE [cfg |-> [FailureThreshold |->
                      IF cfg.FailureThreshold = 0 THEN defaultFailureThreshold
                      ELSE cfg.FailureThreshold,
                   MinRequests |->
                      IF cfg.MinRequests = 0 THEN defaultMinRequests
                      ELSE cfg.MinRequests,
                   OpenDurationSeconds |->
                      IF cfg.OpenDurationSeconds = 0 THEN defaultOpenDurationSeconds
                      ELSE cfg.OpenDurationSeconds,
                   HalfOpenRequests |->
                      IF cfg.HalfOpenRequests = 0 THEN defaultHalfOpenRequests
                      ELSE cfg.HalfOpenRequests],
          state |-> stateClosed,
          openAt |-> 0,
          window |-> <<>>,
          halfOpenTotal |-> 0,
          halfOpenFailures |-> 0]

\* Breaker.transitionTo
transitionTo(b, s, t) ==
    LET b1 == [b EXCEPT !.state = s]
        b2 == IF s = stateOpen
              THEN [b1 EXCEPT !.openAt = t, !.window = <<>>]
              ELSE b1
        b3 == IF s = stateHalfOpen
              THEN [b2 EXCEPT !.halfOpenTotal = 0, !.halfOpenFailures = 0]
              ELSE b2
    IN  IF s = stateClosed THEN [b3 EXCEPT !.window = <<>>] ELSE b3

\* The index loop of Breaker.record: the number of leading observations that
\* lie before the cutoff.
RECURSIVE evictCount(_, _, _)
evictCount(w, cutoff, i) ==
    IF i < Len(w) /\ w[i + 1].at < cutoff
    THEN evictCount(w, cutoff, i + 1)
    ELSE i

\* record without the eviction loop.
recordNoEvict(b, success, t) ==
    [b EXCEPT !.window = Append(b.window, [at |-> t, success |-> success])]

\* Breaker.record: append the observation, then drop the leading observations
\* older than the rolling window.
record(b, success, t) ==
    LET w == Append(b.window, [at |-> t, success |-> success])
        i == evictCount(w, t - rollingWindow, 0)
    IN  [b EXCEPT !.window = SubSeq(w, i + 1, Len(w))]

\* The failure count loop of Breaker.maybeTrip.
failuresIn(w) == Cardinality({i \in 1..Len(w) : ~w[i].success})

maybeTripOffByOne(b, t) ==
    LET total == Len(b.window)
    IN  IF total <= b.cfg.MinRequests THEN b
        ELSE IF (failuresIn(b.window) * 100) \div total >= b.cfg.FailureThreshold
             THEN transitionTo(b, stateOpen, t)
             ELSE b

\* Breaker.maybeTrip
maybeTrip(b, t) ==
    LET total == Len(b.window)
    IN  IF total < b.cfg.MinRequests THEN b
        ELSE IF (failuresIn(b.window) * 100) \div total >= b.cfg.FailureThreshold
             THEN transitionTo(b, stateOpen, t)
             ELSE b

Breaker_AllowAtDeadline(b, t) ==
    IF b = NilBreaker THEN [b |-> b, ok |-> TRUE]
    ELSE CASE b.state = stateClosed -> [b |-> b, ok |-> TRUE]
           [] b.state = stateOpen ->
                IF t - b.openAt >= b.cfg.OpenDurationSeconds
                THEN [b |-> transitionTo(b, stateHalfOpen, t), ok |-> TRUE]
                ELSE [b |-> b, ok |-> FALSE]
           [] b.state = stateHalfOpen ->
                IF b.halfOpenTotal < b.cfg.HalfOpenRequests
                THEN [b |-> [b EXCEPT !.halfOpenTotal = @ + 1], ok |-> TRUE]
                ELSE [b |-> b, ok |-> FALSE]

\* Breaker.Allow: the breaker after the call, and whether it returned nil
\* (admit) rather than ErrCircuitOpen.
Breaker_Allow(b, t) ==
    IF b = NilBreaker THEN [b |-> b, ok |-> TRUE]
    ELSE CASE b.state = stateClosed -> [b |-> b, ok |-> TRUE]
           [] b.state = stateOpen ->
                IF t - b.openAt > b.cfg.OpenDurationSeconds
                THEN [b |-> transitionTo(b, stateHalfOpen, t), ok |-> TRUE]
                ELSE [b |-> b, ok |-> FALSE]
           [] b.state = stateHalfOpen ->
                IF b.halfOpenTotal < b.cfg.HalfOpenRequests
                THEN [b |-> [b EXCEPT !.halfOpenTotal = @ + 1], ok |-> TRUE]
                ELSE [b |-> b, ok |-> FALSE]

Breaker_RecordSuccessInOpen(b, t) ==
    IF b = NilBreaker THEN b
    ELSE CASE b.state = stateHalfOpen ->
                IF b.halfOpenTotal - b.halfOpenFailures >= b.cfg.HalfOpenRequests
                THEN transitionTo(b, stateClosed, t)
                ELSE b
           [] OTHER -> record(b, TRUE, t)

\* RecordSuccess closing only on more successes than half_open_requests.
Breaker_RecordSuccessStrict(b, t) ==
    IF b = NilBreaker THEN b
    ELSE CASE b.state = stateClosed -> record(b, TRUE, t)
           [] b.state = stateHalfOpen ->
                IF b.halfOpenTotal - b.halfOpenFailures > b.cfg.HalfOpenRequests
                THEN transitionTo(b, stateClosed, t)
                ELSE b
           [] OTHER -> b

\* Breaker.RecordSuccess
Breaker_RecordSuccess(b, t) ==
    IF b = NilBreaker THEN b
    ELSE CASE b.state = stateClosed -> record(b, TRUE, t)
           [] b.state = stateHalfOpen ->
                IF b.halfOpenTotal - b.halfOpenFailures >= b.cfg.HalfOpenRequests
                THEN transitionTo(b, stateClosed, t)
                ELSE b
           [] OTHER -> b

Breaker_RecordFailureTolerant(b, t) ==
    IF b = NilBreaker THEN b
    ELSE CASE b.state = stateClosed -> maybeTrip(record(b, FALSE, t), t)
           [] b.state = stateHalfOpen ->
                IF b.halfOpenFailures >= 1
                THEN transitionTo([b EXCEPT !.halfOpenFailures = @ + 1], stateOpen, t)
                ELSE [b EXCEPT !.halfOpenFailures = @ + 1]
           [] OTHER -> b

\* Breaker.RecordFailure
Breaker_RecordFailure(b, t) ==
    IF b = NilBreaker THEN b
    ELSE CASE b.state = stateClosed -> maybeTrip(record(b, FALSE, t), t)
           [] b.state = stateHalfOpen ->
                transitionTo([b EXCEPT !.halfOpenFailures = @ + 1], stateOpen, t)
           [] OTHER -> b

\* Breaker.State
Breaker_State(b) == IF b = NilBreaker THEN "disabled" ELSE b.state


\* ---------------------------------------------------------------------------
\* internal/proxy: route matching
\* ---------------------------------------------------------------------------

\* strings.HasPrefix
HasPrefix(s, prefix) ==
    Len(s) >= Len(prefix) /\ SubSeq(s, 1, Len(prefix)) = prefix

RECURSIVE matchLoopLastWins(_, _, _, _)
matchLoopLastWins(prefixes, path, i, matched) ==
    IF i > Len(prefixes) THEN matched
    ELSE IF HasPrefix(path, prefixes[i])
              /\ (matched = 0 \/ Len(prefixes[i]) >= Len(prefixes[matched]))
         THEN matchLoopLastWins(prefixes, path, i + 1, i)
         ELSE matchLoopLastWins(prefixes, path, i + 1, matched)

\* The loop of Gateway.ServeHTTP over the routes of its snapshot, from route
\* i on, with `matched` the index of the route matched so far (0: nil).
RECURSIVE matchLoop(_, _, _, _)
matchLoop(prefixes, path, i, matched) ==
    IF i > Len(prefixes) THEN matched
    ELSE IF HasPrefix(path, prefixes[i])
              /\ (matched = 0 \/ Len(prefixes[i]) > Len(prefixes[matched]))
         THEN matchLoop(prefixes, path, i + 1, i)
         ELSE matchLoop(prefixes, path, i + 1, matched)

\* The route Gateway.ServeHTTP dispatches to: its index, or 0 for 404.
matchRoute(prefixes, path) == matchLoop(prefixes, path, 1, 0)

\* ---------------------------------------------------------------------------
\* Matching specification: ServeHTTP's route selection over every table of
\* up to MaxRoutes routes and every request path.
\* ---------------------------------------------------------------------------

\* Route prefixes (validate rejects the empty prefix) and request paths.
PrefixSet ==
    { <<"/">>, <<"/", "a">>, <<"/", "a", "/">>, <<"/", "b">>, <<"a">> }

PathSet ==
    { <<>>, <<"/">>, <<"/", "a">>, <<"/", "a", "/", "b">>, <<"/", "b", "a">>,
      <<"a", "/">>, <<"b">> }

MInit ==
    /\ now = 0
    /\ CBIdle
    /\ LIdle
    /\ RIdle
    /\ HIdle
    /\ MIdle
    /\ WIdle
    /\ GIdle

\* A route table is installed; no request has been matched against it yet.
MInstall ==
    /\ \E t \in SeqsUpTo(PrefixSet, MaxRoutes) : mRoutes' = t
    /\ mPath' = <<>>
    /\ mMatched' = 0
    /\ UNCHANGED <<now, cbVars, lVars, rVars, hVars, wVars, gVars>>

\* A request is matched against the table.
MServe ==
    /\ \E path \in PathSet :
         /\ mPath' = path
         /\ mMatched' = matchRoute(mRoutes, path)
    /\ UNCHANGED <<now, cbVars, mRoutes, lVars, rVars, hVars, wVars, gVars>>

MNext == MInstall \/ MServe

SpecMatch == MInit /\ [][MNext]_vars

\* ---------------------------------------------------------------------------
\* internal/config: LoadAndWatch's goroutine, and the reload loop of main
\* ---------------------------------------------------------------------------

\* cap(Watcher.updates): make(chan *Config, 1)
updatesCap == 1

\* LoadAndWatch has loaded the initial file (content 0, valid, else startup
\* fails), NewGateway has built the gateway from it, and both goroutines run.
WInit ==
    /\ now = 0
    /\ CBIdle
    /\ LIdle
    /\ RIdle
    /\ HIdle
    /\ MIdle
    /\ GIdle
    /\ file = [id |-> 0, valid |-> TRUE]
    /\ fswEvents = 0
    /\ debounce = FALSE
    /\ done = FALSE
    /\ updates = <<>>
    /\ reloadPc = "recv"
    /\ newCfg = 0
    /\ applied = 0

\* The operator saves the file, with a content that load accepts or rejects;
\* fsnotify queues a Write event.
WriteFile ==
    /\ file.id < MaxWrites
    /\ \E v \in BOOLEAN : file' = [id |-> file.id + 1, valid |-> v]
    /\ fswEvents' = fswEvents + 1
    /\ UNCHANGED <<now, cbVars, mVars, lVars, rVars, hVars, gVars, debounce, done, updates, reloadPc, newCfg, applied>>

\* case event := <-fsw.Events: a Write or Create event (re)arms the timer.
WatchEvent ==
    /\ ~done
    /\ fswEvents > 0
    /\ fswEvents' = fswEvents - 1
    /\ debounce' = TRUE
    /\ UNCHANGED <<now, cbVars, mVars, lVars, rVars, hVars, gVars, file, done, updates, reloadPc, newCfg, applied>>

\* The non-blocking send of LoadAndWatch: the channel after `select { case
\* w.updates <- cfg: default: }`.
sendOrDrop(ch, cfg) == IF Len(ch) < updatesCap THEN Append(ch, cfg) ELSE ch

\* case <-debounce: the timer fires; load the file as it is now and, when it is
\* valid, offer it to the channel without blocking.
WatchDebounce ==
    /\ ~done
    /\ debounce
    /\ debounce' = FALSE
    /\ updates' = IF file.valid THEN sendOrDrop(updates, file.id) ELSE updates
    /\ UNCHANGED <<now, cbVars, mVars, lVars, rVars, hVars, gVars, file, fswEvents, done, reloadPc, newCfg, applied>>

\* case <-w.done: Watcher.Close was called; the goroutine returns.
WatchClose ==
    /\ ~done
    /\ done' = TRUE
    /\ UNCHANGED <<now, cbVars, mVars, lVars, rVars, hVars, gVars, file, fswEvents, debounce, updates, reloadPc, newCfg, applied>>

\* main: for newCfg := range watcher.Updates()
ReloaderRecv ==
    /\ reloadPc = "recv"
    /\ updates # <<>>
    /\ newCfg' = Head(updates)
    /\ updates' = Tail(updates)
    /\ reloadPc' = "reload"
    /\ UNCHANGED <<now, cbVars, mVars, lVars, rVars, hVars, gVars, file, fswEvents, debounce, done, applied>>

\* main: gw.Reload(newCfg), here of a config whose routes all build.
ReloaderReload ==
    /\ reloadPc = "reload"
    /\ applied' = newCfg
    /\ reloadPc' = "recv"
    /\ UNCHANGED <<now, cbVars, mVars, lVars, rVars, hVars, gVars, file, fswEvents, debounce, done, updates, newCfg>>

WNext ==
    \/ WriteFile
    \/ WatchEvent
    \/ WatchDebounce
    \/ WatchClose
    \/ ReloaderRecv
    \/ ReloaderReload

SpecWatch == WInit /\ [][WNext]_vars

\* ---------------------------------------------------------------------------
\* internal/config: validate
\* ---------------------------------------------------------------------------

\* A RouteConfig.  Window stands for the duration string of the rate limit:
\* whether time.ParseDuration rejects it, and the seconds it gives otherwise.
RouteCfg(prefix, backends, rl, cbcfg) ==
    [PathPrefix |-> prefix, Backends |-> backends, LBAlgorithm |-> "",
     RateLimit |-> rl, CircuitBreaker |-> cbcfg]

BackendCfg(url, weight) == [URL |-> url, Weight |-> weight]

RateLimitCfg(alg, rate, windowErr, windowSecs) ==
    [Algorithm |-> alg, Rate |-> rate, Burst |-> 0, RedisURL |-> "",
     Window |-> [err |-> windowErr, secs |-> windowSecs]]

\* The config with redis_url set.
WithRedis(c, url) == [c EXCEPT !.RedisURL = url]

\* A token_bucket config (the window key left out).
TokenBucketCfg(rate, burst) ==
    [RateLimitCfg("token_bucket", rate, TRUE, 0) EXCEPT !.Burst = burst]

\* The defaulting loop of validate over one route.
validateRoute(r) ==
    [r EXCEPT
       !.Backends = [j \in 1..Len(r.Backends) |->
                       IF r.Backends[j].Weight = 0
                       THEN [r.Backends[j] EXCEPT !.Weight = 1]
                       ELSE r.Backends[j]],
       !.LBAlgorithm = IF @ = "" THEN "round_robin" ELSE @]

\* config.validate on the routes of a config: an error for an empty
\* path_prefix or an empty backend list, else the routes with defaults set.
validate(routes) ==
    IF \E i \in 1..Len(routes) :
          routes[i].PathPrefix = <<>> \/ routes[i].Backends = <<>>
    THEN [err |-> TRUE, routes |-> routes]
    ELSE [err |-> FALSE,
          routes |-> [i \in 1..Len(routes) |-> validateRoute(routes[i])]]

\* ---------------------------------------------------------------------------
\* internal/ratelimiter: New, noopLimiter, localTokenBucket,
\* localSlidingWindow, redisLimiter
\* ---------------------------------------------------------------------------

noopLimiter == [kind |-> "noop"]

\* redis.ParseURL accepts "redis://r"; it rejects a URL without a redis scheme.
redisParseURLOK(u) == u = "redis://r"

\* newRedisLimiter: an error when the URL does not parse; a window that does
\* not parse, or of 0, becomes one second.
newRedisLimiter(cfg) ==
    IF ~redisParseURLOK(cfg.RedisURL) THEN [err |-> TRUE, l |-> noopLimiter]
    ELSE [err |-> FALSE,
          l |-> [kind |-> "redis", rate |-> cfg.Rate,
                 window |-> IF cfg.Window.err \/ cfg.Window.secs = 0 THEN 1
                            ELSE cfg.Window.secs]]

\* ratelimiter.New: no limiter for a nil config, the distributed limiter when
\* redis_url is set, else the local limiters: the sliding window for
\* algorithm sliding_window (an error when the window does not parse), the
\* token bucket for every other algorithm.
ratelimiter_New(cfg) ==
    IF cfg = NilCfg THEN [err |-> FALSE, l |-> noopLimiter]
    ELSE IF cfg.RedisURL # "" THEN newRedisLimiter(cfg)
    ELSE IF cfg.Algorithm = "sliding_window"
         THEN IF cfg.Window.err THEN [err |-> TRUE, l |-> noopLimiter]
              ELSE [err |-> FALSE,
                    l |-> [kind |-> "sliding_window", rate |-> cfg.Rate,
                           window |-> cfg.Window.secs, buckets |-> <<>>]]
         ELSE [err |-> FALSE,
               l |-> [kind |-> "token_bucket", rate |-> cfg.Rate,
                      burst |-> cfg.Burst, buckets |-> <<>>]]

\* buildKeyFn("ip"): X-Forwarded-For when the request has it, else RemoteAddr.
keyFn(q) == IF q.xff # <<>> THEN <<"ip:", q.xff>> ELSE <<"ip:", q.remoteAddr>>

\* A second, in nanoseconds (time.Duration counts nanoseconds).
Second == 1000000000

\* time.Duration(+Inf): the result of the conversion depends on the
\* implementation (the least int64 on amd64); -1 stands for it.
durationOfInf == -1

min(a, b) == IF a < b THEN a ELSE b

\* The wait of a denied token bucket request, in nanoseconds:
\* time.Duration((1-tokens)/rate*1e9).  The model's tokens are whole numbers.
tbWait(tokens, rate) ==
    IF rate = 0 THEN durationOfInf ELSE ((1 - tokens) * Second) \div rate

tbAllowFree(l, key, t) ==
    LET b0     == IF key \in DOMAIN l.buckets THEN l.buckets[key]
                  ELSE [tokens |-> l.burst, lastFill |-> t]
        tokens == min(l.burst, b0.tokens + (t - b0.lastFill) * l.rate)
        put(x) == [l EXCEPT !.buckets =
                     [k \in DOMAIN l.buckets \cup {key} |->
                        IF k = key THEN x ELSE l.buckets[k]]]
    IN  IF tokens < 1
        THEN [res |-> "limited", retryAfter |-> tbWait(tokens, l.rate),
              l |-> put([tokens |-> tokens, lastFill |-> t])]
        ELSE [res |-> "ok", retryAfter |-> 0,
              l |-> put([tokens |-> tokens, lastFill |-> t])]

\* Allow that takes the token before it looks at the count.
tbAllowTakeFirst(l, key, t) ==
    LET b0     == IF key \in DOMAIN l.buckets THEN l.buckets[key]
                  ELSE [tokens |-> l.burst, lastFill |-> t]
        tokens == min(l.burst, b0.tokens + (t - b0.lastFill) * l.rate) - 1
        put(x) == [l EXCEPT !.buckets =
                     [k \in DOMAIN l.buckets \cup {key} |->
                        IF k = key THEN x ELSE l.buckets[k]]]
    IN  IF tokens < 0
        THEN [res |-> "limited", retryAfter |-> tbWait(tokens + 1, l.rate),
              l |-> put([tokens |-> tokens, lastFill |-> t])]
        ELSE [res |-> "ok", retryAfter |-> 0,
              l |-> put([tokens |-> tokens, lastFill |-> t])]

\* localTokenBucket.Allow: "ok" (nil) or "limited" (ErrRateLimited, with
\* retryAfter in nanoseconds), and the limiter after the call.  getOrCreate
\* makes the missing bucket, full, filled at the time of the call.
tbAllow(l, key, t) ==
    LET b0     == IF key \in DOMAIN l.buckets THEN l.buckets[key]
                  ELSE [tokens |-> l.burst, lastFill |-> t]
        tokens == min(l.burst, b0.tokens + (t - b0.lastFill) * l.rate)
        put(x) == [l EXCEPT !.buckets =
                     [k \in DOMAIN l.buckets \cup {key} |->
                        IF k = key THEN x ELSE l.buckets[k]]]
    IN  IF tokens < 1
        THEN [res |-> "limited", retryAfter |-> tbWait(tokens, l.rate),
              l |-> put([tokens |-> tokens, lastFill |-> t])]
        ELSE [res |-> "ok", retryAfter |-> 0,
              l |-> put([tokens |-> tokens - 1, lastFill |-> t])]

\* The eviction loop of localSlidingWindow.Allow.
RECURSIVE swEvictCount(_, _, _)
swEvictCount(ts, cutoff, i) ==
    IF i < Len(ts) /\ ts[i + 1] < cutoff
    THEN swEvictCount(ts, cutoff, i + 1)
    ELSE i

\* localSlidingWindow.Allow: "ok" (nil), "limited" (ErrRateLimited) or
\* "panic" (timestamps[0] of an empty bucket: index out of range), and the
\* limiter after the call; retryAfter is in seconds.  swGetOrCreate makes the
\* missing bucket.
swAllow(l, key, t) ==
    LET bucket == IF key \in DOMAIN l.buckets THEN l.buckets[key] ELSE <<>>
        i      == swEvictCount(bucket, t - l.window, 0)
        ts     == SubSeq(bucket, i + 1, Len(bucket))
        put(x) == [l EXCEPT !.buckets =
                     [k \in DOMAIN l.buckets \cup {key} |->
                        IF k = key THEN x ELSE l.buckets[k]]]
    IN  IF Len(ts) >= l.rate
        THEN IF ts = <<>>
             THEN [res |-> "panic", retryAfter |-> 0, l |-> put(ts)]
             ELSE [res |-> "limited", retryAfter |-> ts[1] + l.window - t,
                   l |-> put(ts)]
        ELSE [res |-> "ok", retryAfter |-> 0, l |-> put(Append(ts, t))]

\* slidingWindowLua on the sorted set zset of a key (a set of scores, each
\* member being its own score), at nowMs: the reply as Int64Slice gives it
\* and the set after the script.  ZREMRANGEBYSCORE removes the scores up to
\* and including the cutoff.  With limit 0 and an empty set, oldest[2] is nil
\* and the reply is the one-element array {0}.
slidingWindowLua(zset, nowMs, windowMs, limit) ==
    LET kept == {x \in zset : x > nowMs - windowMs}
        Least(S) == CHOOSE x \in S : \A y \in S : x <= y
    IN  IF Cardinality(kept) >= limit
        THEN [reply |-> IF kept = {} THEN <<0>> ELSE <<0, Least(kept)>>,
              zset |-> kept]
        ELSE [reply |-> <<1, 0>>, zset |-> kept \cup {nowMs}]

\* The ways the call of the script can go: "reply" (the store answers in
\* time), "error" (the store cannot be reached; the script does not run) and
\* "timeout" (the script runs, its reply comes after the 50 ms deadline).
StoreReplies == {"reply", "error", "timeout"}

redisLimiter_AllowFailClosed(l, store, q, t, how) ==
    LET key == <<"rl:", keyFn(q)>>
        zset == IF key \in DOMAIN store THEN store[key] ELSE {}
        run == slidingWindowLua(zset, t * 1000, l.window * 1000, l.rate)
        put(x) == [k \in DOMAIN store \cup {key} |->
                     IF k = key THEN x ELSE store[k]]
    IN  IF how = "error"
        THEN [res |-> "limited", retryAfter |-> 0, l |-> l, store |-> store]
        ELSE IF how = "timeout"
        THEN [res |-> "limited", retryAfter |-> 0, l |-> l, store |-> put(run.zset)]
        ELSE IF run.reply[1] = 0
        THEN IF Len(run.reply) < 2
             THEN [res |-> "panic", retryAfter |-> 0, l |-> l, store |-> put(run.zset)]
             ELSE [res |-> "limited",
                   retryAfter |-> run.reply[2] + l.window * 1000 - t * 1000,
                   l |-> l, store |-> put(run.zset)]
        ELSE [res |-> "ok", retryAfter |-> 0, l |-> l, store |-> put(run.zset)]

\* redisLimiter.Allow with time.Now().UnixMilli() = nowMs: "ok" (nil), also
\* when the script's call returned an error; "limited" (ErrRateLimited,
\* retryAfter in milliseconds) when the reply starts with 0; "panic" (res[1]
\* of a one-element reply: index out of range); and the store after the call.
redisLimiter_AllowAt(l, store, q, nowMs, how) ==
    LET key == <<"rl:", keyFn(q)>>
        zset == IF key \in DOMAIN store THEN store[key] ELSE {}
        run == slidingWindowLua(zset, nowMs, l.window * 1000, l.rate)
        put(x) == [k \in DOMAIN store \cup {key} |->
                     IF k = key THEN x ELSE store[k]]
    IN  IF how = "error"
        THEN [res |-> "ok", retryAfter |-> 0, l |-> l, store |-> store]
        ELSE IF how = "timeout"
        THEN [res |-> "ok", retryAfter |-> 0, l |-> l, store |-> put(run.zset)]
        ELSE IF run.reply[1] = 0
        THEN IF Len(run.reply) < 2
             THEN [res |-> "panic", retryAfter |-> 0, l |-> l, store |-> put(run.zset)]
             ELSE [res |-> "limited",
                   retryAfter |-> run.reply[2] + l.window * 1000 - nowMs,
                   l |-> l, store |-> put(run.zset)]
        ELSE [res |-> "ok", retryAfter |-> 0, l |-> l, store |-> put(run.zset)]

\* redisLimiter.Allow at time t of the model's clock, which counts seconds:
\* nowMs := time.Now().UnixMilli().
redisLimiter_Allow(l, store, q, t, how) ==
    redisLimiter_AllowAt(l, store, q, t * 1000, how)

\* Limiter.Allow of the local limiters
Limiter_Allow(l, q, t) ==
    CASE l.kind = "noop" -> [res |-> "ok", retryAfter |-> 0, l |-> l]
      [] l.kind = "token_bucket" -> tbAllow(l, keyFn(q), t)
      [] l.kind = "sliding_window" -> swAllow(l, keyFn(q), t)

\* ---------------------------------------------------------------------------
\* internal/loadbalancer: Backend, buildBackends, healthy, roundRobin
\* ---------------------------------------------------------------------------

\* loadbalancer.buildBackends: fresh Backend records, alive, nothing in flight.
buildBackends(cfgs) ==
    [j \in 1..Len(cfgs) |->
       [URL |-> cfgs[j].URL, Weight |-> cfgs[j].Weight,
        alive |-> TRUE, inflight |-> 0]]

healthyAll(bs) == [j \in 1..Len(bs) |-> j]

\* loadbalancer.healthy: the alive backends, in order (as indices).
healthy(bs) ==
    LET isAlive(j) == bs[j].alive
    IN  SelectSeq([j \in 1..Len(bs) |-> j], isAlive)

roundRobin_NextSkip(rt) ==
    LET al == healthy(rt.backends)
    IN  IF al = <<>>
        THEN [err |-> TRUE, j |-> 0, counter |-> rt.counter]
        ELSE [err |-> FALSE, j |-> al[(rt.counter % Len(al)) + 1],
              counter |-> rt.counter + 2]

\* roundRobin.Next: ErrNoHealthyBackend, or the backend chosen and the counter
\* after the fetch-add.
roundRobin_Next(rt) ==
    LET al == healthy(rt.backends)
    IN  IF al = <<>>
        THEN [err |-> TRUE, j |-> 0, counter |-> rt.counter]
        ELSE [err |-> FALSE, j |-> al[(rt.counter % Len(al)) + 1],
              counter |-> rt.counter + 1]

RECURSIVE leastLoopLastTie(_, _, _, _)
leastLoopLastTie(bs, al, i, best) ==
    IF i > Len(al) THEN best
    ELSE leastLoopLastTie(bs, al, i + 1,
                          IF bs[al[i]].inflight <= bs[best].inflight
                          THEN al[i] ELSE best)

\* The loop of leastConn.Next over alive[1:], best being the index (into the
\* backend list) of the best backend so far.
RECURSIVE leastLoop(_, _, _, _)
leastLoop(bs, al, i, best) ==
    IF i > Len(al) THEN best
    ELSE leastLoop(bs, al, i + 1,
                   IF bs[al[i]].inflight < bs[best].inflight
                   THEN al[i] ELSE best)

\* leastConn.Next
leastConn_Next(rt) ==
    LET al == healthy(rt.backends)
    IN  IF al = <<>> THEN [err |-> TRUE, j |-> 0]
        ELSE [err |-> FALSE, j |-> leastLoop(rt.backends, al, 2, al[1])]

RECURSIVE weightedLoopLastMax(_, _, _, _, _)
weightedLoopLastMax(bs, cur, i, total, best) ==
    IF i > Len(bs) THEN [cur |-> cur, total |-> total, best |-> best]
    ELSE IF ~bs[i].alive THEN weightedLoopLastMax(bs, cur, i + 1, total, best)
    ELSE LET c == [cur EXCEPT ![i] = @ + bs[i].Weight]
         IN  weightedLoopLastMax(bs, c, i + 1, total + bs[i].Weight,
                                 IF best = 0 \/ c[i] >= c[best] THEN i ELSE best)

\* The loop of weighted.Next from backend i on: the current values, the total
\* weight of the alive backends and the best backend so far (0: nil).
RECURSIVE weightedLoop(_, _, _, _, _)
weightedLoop(bs, cur, i, total, best) ==
    IF i > Len(bs) THEN [cur |-> cur, total |-> total, best |-> best]
    ELSE IF ~bs[i].alive THEN weightedLoop(bs, cur, i + 1, total, best)
    ELSE LET c == [cur EXCEPT ![i] = @ + bs[i].Weight]
         IN  weightedLoop(bs, c, i + 1, total + bs[i].Weight,
                          IF best = 0 \/ c[i] > c[best] THEN i ELSE best)

\* weighted.Next taking the chosen backend's own weight off its current.
weighted_NextOwnWeight(rt) ==
    LET l == weightedLoop(rt.backends, rt.current, 1, 0, 0)
    IN  IF l.best = 0 THEN [err |-> TRUE, j |-> 0, current |-> l.cur]
        ELSE [err |-> FALSE, j |-> l.best,
              current |-> [l.cur EXCEPT ![l.best] = @ - rt.backends[l.best].Weight]]

\* weighted.Next: ErrNoHealthyBackend, or the backend chosen and the current
\* values after the call.
weighted_Next(rt) ==
    LET l == weightedLoop(rt.backends, rt.current, 1, 0, 0)
    IN  IF l.best = 0 THEN [err |-> TRUE, j |-> 0, current |-> l.cur]
        ELSE [err |-> FALSE, j |-> l.best,
              current |-> [l.cur EXCEPT ![l.best] = @ - l.total]]

\* loadbalancer.clientIP.  Header values and addresses are byte strings; an
\* absent header is the empty string.
clientIP(q) ==
    IF q.xff # <<>> THEN q.xff
    ELSE IF q.xri # <<>> THEN q.xri
    ELSE q.remoteAddr

\* A uint32 is kept as two 16-bit halves, [hi, lo].
\* The FNV-1a offset basis 2166136261 = 0x811C9DC5.
fnvOffsetHi == 33052

fnvOffsetLo == 40389

\* The FNV prime 16777619 = 2^24 + 403.
fnvPrimeLow == 403

\* a XOR b on n bits.
RECURSIVE xorBits(_, _, _)
xorBits(a, b, n) ==
    IF n = 0 THEN 0
    ELSE (((a % 2) + (b % 2)) % 2) + 2 * xorBits(a \div 2, b \div 2, n - 1)

\* h ^= uint32(c) for a byte c.
fnvXor(h, c) ==
    [hi |-> h.hi, lo |-> (h.lo \div 256) * 256 + xorBits(h.lo % 256, c, 8)]

\* h *= 16777619, modulo 2^32.
fnvMul(h) ==
    LET p == h.lo * fnvPrimeLow
    IN  [hi |-> ((h.hi * fnvPrimeLow) + (p \div 65536) + ((h.lo % 256) * 256)) % 65536,
         lo |-> p % 65536]

\* The loop of fnv1a from byte i on.
RECURSIVE fnvLoop(_, _, _)
fnvLoop(str, i, h) ==
    IF i > Len(str) THEN h
    ELSE fnvLoop(str, i + 1, fnvMul(fnvXor(h, str[i])))

\* loadbalancer.fnv1a
fnv1a(str) == fnvLoop(str, 1, [hi |-> fnvOffsetHi, lo |-> fnvOffsetLo])

\* h % uint32(n), for a small n.
modUint32(h, n) == (((h.hi % n) * (65536 % n)) + h.lo) % n

\* ipHash.Next
ipHash_Next(rt, q) ==
    LET al == healthy(rt.backends)
    IN  IF al = <<>> THEN [err |-> TRUE, j |-> 0]
        ELSE [err |-> FALSE,
              j |-> al[modUint32(fnv1a(clientIP(q)), Len(al)) + 1]]

\* Balancer.Next of the balancer loadbalancer.New made for the algorithm: an
\* error or the backend chosen, and the balancer's counter (round robin) and
\* current values (weighted) after the call.
Balancer_Next(rt, q) ==
    CASE rt.alg = "least_conn" ->
           LET n == leastConn_Next(rt)
           IN  [err |-> n.err, j |-> n.j, counter |-> rt.counter, current |-> rt.current]
      [] rt.alg = "weighted" ->
           LET n == weighted_Next(rt)
           IN  [err |-> n.err, j |-> n.j, counter |-> rt.counter, current |-> n.current]
      [] rt.alg = "ip_hash" ->
           LET n == ipHash_Next(rt, q)
           IN  [err |-> n.err, j |-> n.j, counter |-> rt.counter, current |-> rt.current]
      [] OTHER ->
           LET n == roundRobin_Next(rt)
           IN  [err |-> n.err, j |-> n.j, counter |-> n.counter, current |-> rt.current]

\* loadbalancer.New: the balancer of the algorithm over fresh backends, its
\* round-robin counter and its weighted current values zero.
loadbalancer_New(alg, cfgs) ==
    [alg |-> alg, backends |-> buildBackends(cfgs), counter |-> 0,
     current |-> [j \in 1..Len(cfgs) |-> 0]]

\* mergeBackends that makes every record anew.
mergeBackendsFresh(existing, cfgs) == buildBackends(cfgs)

\* loadbalancer.mergeBackends: for each config in order, the existing record
\* of its URL (the last one of that URL) with the weight of the config, else
\* a new record, alive, nothing in flight.
mergeBackends(existing, cfgs) ==
    LET byURL(u) == IF \E i \in 1..Len(existing) : existing[i].URL = u
                    THEN CHOOSE i \in 1..Len(existing) :
                           /\ existing[i].URL = u
                           /\ \A k \in (i + 1)..Len(existing) : existing[k].URL # u
                    ELSE 0
    IN  [j \in 1..Len(cfgs) |->
           IF byURL(cfgs[j].URL) # 0
           THEN [existing[byURL(cfgs[j].URL)] EXCEPT !.Weight = cfgs[j].Weight]
           ELSE [URL |-> cfgs[j].URL, Weight |-> cfgs[j].Weight,
                 alive |-> TRUE, inflight |-> 0]]

\* Balancer.Update: the merged backends; weighted.Update wraps each of them
\* in a new wBackend, whose current is 0 (the other balancers have no current
\* values; the model keeps them 0).  The round-robin counter stays.
Balancer_Update(rt, cfgs) ==
    [rt EXCEPT !.backends = mergeBackends(@, cfgs),
               !.current = [j \in 1..Len(cfgs) |-> 0]]

\* Backend.Inc, Backend.Dec and Backend.SetAlive on backend j of route rid.
Backend_Inc(h, rid, j) == [h EXCEPT ![rid].backends[j].inflight = @ + 1]

Backend_Dec(h, rid, j) == [h EXCEPT ![rid].backends[j].inflight = @ - 1]

Backend_SetAlive(h, rid, j, v) == [h EXCEPT ![rid].backends[j].alive = v]

\* ---------------------------------------------------------------------------
\* internal/proxy: buildRoute, buildRoutes
\* ---------------------------------------------------------------------------

\* proxy.buildRoute: an error from ratelimiter.New, else the route with its
\* fresh balancer, limiter and one fresh breaker per backend URL.
buildRoute(cfg) ==
    LET lim == ratelimiter_New(cfg.RateLimit)
        lb0 == loadbalancer_New(cfg.LBAlgorithm, cfg.Backends)
    IN  [err |-> lim.err,
         route |-> [prefix |-> cfg.PathPrefix,
                    alg |-> lb0.alg,
                    backends |-> lb0.backends,
                    counter |-> lb0.counter,
                    current |-> lb0.current,
                    rl |-> lim.l,
                    breakers |->
                       [u \in {cfg.Backends[j].URL : j \in 1..Len(cfg.Backends)} |->
                          NewBreaker(cfg.CircuitBreaker)]]]

\* proxy.buildRoutes from route i on: the routes built so far, and whether
\* one failed to build (the loop then returns at once).
RECURSIVE buildRoutes(_, _, _)
buildRoutes(cfgs, i, built) ==
    IF i > Len(cfgs) THEN [err |-> FALSE, routes |-> built]
    ELSE LET r == buildRoute(cfgs[i])
         IN  IF r.err THEN [err |-> TRUE, routes |-> built]
             ELSE buildRoutes(cfgs, i + 1, Append(built, r.route))

\* ---------------------------------------------------------------------------
\* internal/proxy: Gateway.ServeHTTP, route.serveProxy, Gateway.Reload
\* ---------------------------------------------------------------------------

\* url.Parse rejects a backend URL such as ":bad" (missing protocol scheme);
\* validate does not look at backend URLs.
urlParseOK(u) == u # ":bad"

\* http.ResponseWriter.WriteHeader: the first status written is the response's
\* status; a later call is superfluous and ignored.  fwd tells a status copied
\* from the upstream response from one the gateway made up itself.
WriteHeader(q, code, fwd) ==
    IF q.status = 0 THEN [q EXCEPT !.status = code, !.fwd = fwd] ELSE q

\* middleware.Recovery: a panic that reaches it is answered with http.Error 500.
Recovery(q) == WriteHeader([q EXCEPT !.panicked = TRUE], 500, FALSE)

\* The handler has returned.
Finish(q) == [q EXCEPT !.pc = "done"]

\* A request that has not arrived.
NoRequest ==
    [pc |-> "idle", path |-> <<>>, remoteAddr |-> <<>>, xff |-> <<>>,
     xri |-> <<>>, xRequestID |-> <<>>, wRequestID |-> <<>>,
     snap |-> <<>>, store |-> None,
     route |-> <<0, 0>>, backend |-> 0, status |-> 0, fwd |-> FALSE,
     stages |-> <<>>, recs |-> 0, calls |-> <<>>, incs |-> 0, decs |-> 0,
     panicked |-> FALSE]

\* uuid.New().String() for request r: an id no other request carries.
uuidNew(r) == <<"uuid", r>>

\* middleware.RequestID, the outermost layer of a route's chain: the inbound
\* X-Request-ID, or a fresh one when it is empty, is set on the request and on
\* the response.
RequestID(q, r) ==
    LET id == IF q.xRequestID = <<>> THEN uuidNew(r) ELSE q.xRequestID
    IN  [q EXCEPT !.wRequestID = id]

\* The prefixes of the routes of a table, in table order.
prefixesOf(h, table) == [i \in 1..Len(table) |-> h[table[i]].prefix]

readCurrentTable(q) == gwRoutes

\* The route table ServeHTTP matches the request against: the slice it read
\* under the read lock.
tableOf(q) == q.snap

dropDecOnPanic(h, rid, j, exit) ==
    IF exit = "panic" THEN h ELSE Backend_Dec(h, rid, j)

\* `defer backend.Dec()` of serveProxy: runs however the function is left
\* ("return" or "panic").
deferredDec(h, rid, j, exit) == Backend_Dec(h, rid, j)

\* ModifyResponse that records the outcome and leaves the alive flag alone.
ModifyResponseRecordOnly(h, rid, j, statusCode, t) ==
    LET u == h[rid].backends[j].URL
    IN  IF statusCode >= 500
        THEN [h |-> [h EXCEPT ![rid].breakers[u] = Breaker_RecordFailure(@, t)],
              recs |-> 1, calls |-> <<"failure">>]
        ELSE [h |-> [h EXCEPT ![rid].breakers[u] = Breaker_RecordSuccess(@, t)],
              recs |-> 1, calls |-> <<"success">>]

\* ModifyResponse of serveProxy's ReverseProxy: the heap after it, the number
\* of breaker outcomes it recorded and the calls it made on the breaker.
ModifyResponse(h, rid, j, statusCode, t) ==
    LET u == h[rid].backends[j].URL
    IN  IF statusCode >= 500
        THEN [h |-> Backend_SetAlive(
                      [h EXCEPT ![rid].breakers[u] = Breaker_RecordFailure(@, t)],
                      rid, j, FALSE),
              recs |-> 1, calls |-> <<"failure">>]
        ELSE [h |-> Backend_SetAlive(
                      [h EXCEPT ![rid].breakers[u] = Breaker_RecordSuccess(@, t)],
                      rid, j, TRUE),
              recs |-> 1, calls |-> <<"success">>]

\* ErrorHandler of serveProxy's ReverseProxy (the 502 is written by the caller
\* below).
ErrorHandler(h, rid, j, t) ==
    LET u == h[rid].backends[j].URL
    IN  [h |-> Backend_SetAlive(
                 [h EXCEPT ![rid].breakers[u] = Breaker_RecordFailure(@, t)],
                 rid, j, FALSE),
         recs |-> 1, calls |-> <<"failure">>]

installAlways(old, ids, err) == ids

\* Gateway.Reload after buildRoutes: the early return on an error, else the
\* swap of gw.routes.
swapRoutes(old, ids, err) == IF err THEN old ELSE ids

\* ---------------------------------------------------------------------------
\* Gateway specification: NumReqs concurrent requests through ServeHTTP and
\* serveProxy, while the configuration is reloaded, health checkers probe the
\* backends and time passes.
\* ---------------------------------------------------------------------------

Reqs == 1..NumReqs

\* "10.0.0.1", "10.0.0.2" and "192.168.0.9" as bytes.
IPa == <<49, 48, 46, 48, 46, 48, 46, 49>>

IPb == <<49, 48, 46, 48, 46, 48, 46, 50>>

IPc == <<49, 57, 50, 46, 49, 54, 56, 46, 48, 46, 57>>

\* "5000" and "5001" as bytes.
PortA == <<53, 48, 48, 48>>

PortB == <<53, 48, 48, 49>>

GwPaths == { <<"/", "a">>, <<"/", "b">>, <<"b">> }

\* The X-Request-ID header of an inbound request: absent, or set by the
\* client.  A request for a routed path and one for an unrouted path come with
\* and without it.
ClientID == <<"client-id">>

XRequestIDs(path) ==
    CASE path = <<"/", "a">> -> { <<>> }
      [] path = <<"/", "b">> -> { ClientID }
      [] OTHER               -> { <<>>, ClientID }

\* r.RemoteAddr, "IP:port" of the connection; the requests carry neither
\* X-Forwarded-For nor X-Real-IP.
RemoteAddrs == { IPa \o <<58>> \o PortA }

\* The upstream's part in a forwarded request, as httputil.ReverseProxy turns
\* it into calls of serveProxy's callbacks:
\*   "2xx"     a response below 500: ModifyResponse, then the response is copied;
\*   "5xx"     a response of 500 or more: the same;
\*   "error"   the round trip fails: ErrorHandler;
\*   "abort"   a response below 500 whose body copy fails: ModifyResponse, the
\*             headers are written, then a panic with http.ErrAbortHandler;
\*   "upgrade" a 101 Switching Protocols naming a protocol the request did not
\*             ask for: ModifyResponse, then handleUpgradeResponse calls
\*             ErrorHandler.
Upstream == { "2xx", "5xx", "error", "abort", "upgrade" }

\* The route with lb_algorithm set.
WithLB(r, alg) == [r EXCEPT !.LBAlgorithm = alg]

\* lb_algorithm left out: validate makes it round_robin.
RA == RouteCfg(<<"/", "a">>,
               <<BackendCfg("http://a", 0), BackendCfg("http://b", 2)>>,
               RateLimitCfg("sliding_window", 1, FALSE, 1),
               CBConfig(50, 1, 1, 1))

RA2 == WithLB(RouteCfg(<<"/", "a">>,
                       <<BackendCfg("http://a", 3)>>,
                       NilCfg,
                       CBConfig(50, 1, 1, 1)), "weighted")

RB == RouteCfg(<<"/">>, <<BackendCfg(":bad", 1)>>, NilCfg, NilCfg)

\* A sliding window with rate 0 (the rate key left out).
RZ == RouteCfg(<<"/", "b">>, <<BackendCfg("http://a", 1)>>,
               RateLimitCfg("sliding_window", 0, FALSE, 1), NilCfg)

\* A window that time.ParseDuration rejects.
RX == RouteCfg(<<"/", "x">>, <<BackendCfg("http://a", 1)>>,
               RateLimitCfg("sliding_window", 1, TRUE, 0), NilCfg)

RL == WithLB(RouteCfg(<<"/", "a">>,
                      <<BackendCfg("http://a", 1), BackendCfg("http://b", 1)>>,
                      NilCfg, NilCfg), "least_conn")

\* Rate limited through the shared store.
RH == WithLB(RouteCfg(<<"/">>,
                      <<BackendCfg("http://a", 1), BackendCfg("http://b", 1)>>,
                      WithRedis(RateLimitCfg("sliding_window", 1, FALSE, 1),
                                "redis://r"),
                      NilCfg), "ip_hash")

\* No backends: validate rejects it.
RI == RouteCfg(<<"/", "i">>, <<>>, NilCfg, NilCfg)

\* The configuration the gateway starts with, and the contents the file takes.
InitialConfig == <<RA, RB>>

Configs == { <<RA, RB>>, <<RA2, RZ>>, <<RL, RH>>, <<RA, RX>>, <<RA, RI>> }

\* The route objects of a load, by id.
objectsOf(n, routes) ==
    [rid \in {<<n, i>> : i \in 1..Len(routes)} |-> routes[rid[2]]]

idsOf(n, routes) == [i \in 1..Len(routes) |-> <<n, i>>]

\* main: LoadAndWatch loads and validates the file, NewGateway builds the
\* routes (each with a running health checker).
GInit ==
    /\ now = 0
    /\ CBIdle
    /\ LIdle
    /\ RIdle
    /\ HIdle
    /\ MIdle
    /\ WIdle
    /\ LET b == buildRoutes(validate(InitialConfig).routes, 1, <<>>)
       IN  /\ heap = objectsOf(0, b.routes)
           /\ gwRoutes = idsOf(0, b.routes)
           /\ checkers = {<<0, i>> : i \in 1..Len(b.routes)}
           /\ installed = {idsOf(0, b.routes)}
    /\ req = [r \in Reqs |-> NoRequest]
    /\ loads = 0
    /\ probes = 0
    /\ lastLoad = "installed"
    /\ redis = <<>>

GTick ==
    /\ now < GwMaxTime
    /\ now' = now + 1
    /\ UNCHANGED <<cbVars, mVars, lVars, rVars, hVars, wVars, gVars>>

\* ServeHTTP, lines 84-86: a request arrives and reads gw.routes under RLock.
ServeHTTP_Read(r) ==
    /\ req[r].pc = "idle"
    /\ \A r2 \in Reqs : r2 < r => req[r2].pc # "idle"
    /\ \E path \in GwPaths, addr \in RemoteAddrs :
         \E id \in XRequestIDs(path) :
            req' = [req EXCEPT ![r] = [@ EXCEPT !.pc = "match", !.path = path,
                                         !.remoteAddr = addr,
                                         !.xRequestID = id,
                                         !.snap = gwRoutes]]
    /\ UNCHANGED <<now, cbVars, mVars, lVars, rVars, hVars, wVars, gwRoutes, heap, checkers, loads, probes, installed, lastLoad, redis>>

\* ServeHTTP, lines 88-103: longest prefix match, 404 or the route's handler.
ServeHTTP_Match(r) ==
    /\ req[r].pc = "match"
    /\ LET q     == [req[r] EXCEPT !.stages = Append(@, "match")]
           table == tableOf(q)
           i     == matchRoute(prefixesOf(heap, table), q.path)
       IN  req' = [req EXCEPT ![r] =
                     IF i = 0 THEN Finish(WriteHeader(q, 404, FALSE))
                     ELSE [RequestID(q, r) EXCEPT !.pc = "limit",
                                                  !.route = table[i]]]
    /\ UNCHANGED <<now, cbVars, mVars, lVars, rVars, hVars, wVars, gwRoutes, heap, checkers, loads, probes, installed, lastLoad, redis>>

\* serveProxy, lines 224-233: the rate limit; 429, or on to the balancer.  A
\* panic of the limiter unwinds to Recovery.
serveProxy_RateLimit(r) ==
    /\ req[r].pc = "limit"
    /\ LET rid == req[r].route
           l   == heap[rid].rl
       IN  \E how \in (IF l.kind = "redis" THEN StoreReplies ELSE {None}) :
              LET q == [req[r] EXCEPT !.stages = Append(@, "limit"),
                                      !.store = how]
                  a == IF l.kind = "redis"
                       THEN redisLimiter_Allow(l, redis, q, now, how)
                       ELSE [store |-> redis] @@ Limiter_Allow(l, q, now)
              IN  /\ heap' = [heap EXCEPT ![rid].rl = a.l]
                  /\ redis' = a.store
                  /\ req' = [req EXCEPT ![r] =
                               CASE a.res = "ok"      -> [q EXCEPT !.pc = "pick"]
                                 [] a.res = "limited" -> Finish(WriteHeader(q, 429, FALSE))
                                 [] a.res = "panic"   -> Finish(Recovery(q))]
    /\ UNCHANGED <<now, cbVars, mVars, lVars, rVars, hVars, wVars, gwRoutes, checkers, loads, probes, installed, lastLoad>>

\* serveProxy, lines 235-241: pick a backend; 503 when none is alive.
serveProxy_Next(r) ==
    /\ req[r].pc = "pick"
    /\ LET q   == [req[r] EXCEPT !.stages = Append(@, "pick")]
           rid == q.route
           n   == Balancer_Next(heap[rid], q)
       IN  /\ heap' = [heap EXCEPT ![rid].counter = n.counter,
                                   ![rid].current = n.current]
           /\ req' = [req EXCEPT ![r] =
                        IF n.err THEN Finish(WriteHeader(q, 503, FALSE))
                        ELSE [q EXCEPT !.pc = "allow", !.backend = n.j]]
    /\ UNCHANGED <<now, cbVars, mVars, lVars, rVars, hVars, wVars, gwRoutes, checkers, loads, probes, installed, lastLoad, redis>>

\* serveProxy, lines 243-248: the breaker of the backend's URL; 503 on deny.
serveProxy_Allow(r) ==
    /\ req[r].pc = "allow"
    /\ LET q   == [req[r] EXCEPT !.stages = Append(@, "allow")]
           rid == q.route
           u   == heap[rid].backends[q.backend].URL
           a   == Breaker_Allow(heap[rid].breakers[u], now)
       IN  /\ heap' = [heap EXCEPT ![rid].breakers[u] = a.b]
           /\ req' = [req EXCEPT ![r] =
                        IF a.ok THEN [q EXCEPT !.pc = "inc"]
                        ELSE Finish(WriteHeader(q, 503, FALSE))]
    /\ UNCHANGED <<now, cbVars, mVars, lVars, rVars, hVars, wVars, gwRoutes, checkers, loads, probes, installed, lastLoad, redis>>

\* serveProxy, lines 250-252: backend.Inc(), with the Dec deferred.
serveProxy_Inc(r) ==
    /\ req[r].pc = "inc"
    /\ heap' = Backend_Inc(heap, req[r].route, req[r].backend)
    /\ req' = [req EXCEPT ![r] = [@ EXCEPT !.pc = "forward", !.incs = @ + 1]]
    /\ UNCHANGED <<now, cbVars, mVars, lVars, rVars, hVars, wVars, gwRoutes, checkers, loads, probes, installed, lastLoad, redis>>

\* serveProxy, lines 254-259: url.Parse fails; 502 and the deferred Dec.
serveProxy_BadURL(r) ==
    /\ req[r].pc = "forward"
    /\ LET q   == req[r]
           rid == q.route
           j   == q.backend
           h2  == deferredDec(heap, rid, j, "return")
       IN  /\ ~urlParseOK(heap[rid].backends[j].URL)
           /\ heap' = h2
           /\ req' = [req EXCEPT ![r] =
                        Finish([WriteHeader(q, 502, FALSE) EXCEPT
                                  !.decs = @ + heap[rid].backends[j].inflight
                                             - h2[rid].backends[j].inflight])]
    /\ UNCHANGED <<now, cbVars, mVars, lVars, rVars, hVars, wVars, gwRoutes, checkers, loads, probes, installed, lastLoad, redis>>

\* serveProxy, lines 261-314: proxy.ServeHTTP forwards the request; the
\* upstream's part decides which callback runs; then the deferred Dec.
serveProxy_Forward(r) ==
    /\ req[r].pc = "forward"
    /\ LET q   == [req[r] EXCEPT !.stages = Append(@, "forward")]
           rid == q.route
           j   == q.backend
       IN  /\ urlParseOK(heap[rid].backends[j].URL)
           /\ \E up \in Upstream :
                LET mr   == ModifyResponse(heap, rid, j, 101, now)
                    eh   == ErrorHandler(mr.h, rid, j, now)
                    cbk  == CASE up = "error"   -> ErrorHandler(heap, rid, j, now)
                              [] up = "5xx"     -> ModifyResponse(heap, rid, j, 500, now)
                              [] up = "upgrade" -> [h |-> eh.h,
                                                    recs |-> mr.recs + eh.recs,
                                                    calls |-> mr.calls \o eh.calls]
                              [] OTHER          -> ModifyResponse(heap, rid, j, 200, now)
                    q1   == CASE up \in {"error", "upgrade"} -> WriteHeader(q, 502, FALSE)
                              [] up = "5xx"   -> WriteHeader(q, 500, TRUE)
                              [] OTHER        -> WriteHeader(q, 200, TRUE)
                    exit == IF up = "abort" THEN "panic" ELSE "return"
                    h2   == deferredDec(cbk.h, rid, j, exit)
                    q2   == [q1 EXCEPT !.recs = @ + cbk.recs,
                                       !.calls = @ \o cbk.calls,
                                       !.decs = @ + cbk.h[rid].backends[j].inflight
                                                  - h2[rid].backends[j].inflight]
                IN  /\ heap' = h2
                    /\ req' = [req EXCEPT ![r] =
                                 Finish(IF up = "abort" THEN Recovery(q2) ELSE q2)]
    /\ UNCHANGED <<now, cbVars, mVars, lVars, rVars, hVars, wVars, gwRoutes, checkers, loads, probes, installed, lastLoad, redis>>

\* health.Checker.checkOne of a running checker: the probe's verdict (a
\* status below 500) becomes the backend's alive flag.
checkOne ==
    /\ probes < MaxProbes
    /\ \E rid \in checkers :
         \E j \in 1..Len(heap[rid].backends), verdict \in BOOLEAN :
            heap' = Backend_SetAlive(heap, rid, j, verdict)
    /\ probes' = probes + 1
    /\ UNCHANGED <<now, cbVars, mVars, lVars, rVars, hVars, wVars, gwRoutes, checkers, req, loads, installed, lastLoad, redis>>

\* The file changes and LoadAndWatch's goroutine loads it: an invalid config
\* is logged and dropped; a valid one reaches main's loop, which calls
\* gw.Reload.  Reload builds the routes (starting their checkers), returns on
\* an error, else swaps the table and stops the checkers of the old routes
\* whose prefix is gone.
ReloadFrom(configs) ==
    /\ loads < MaxLoads
    /\ loads' = loads + 1
    /\ \E cfg \in configs :
         LET v == validate(cfg)
         IN  IF v.err
             THEN /\ lastLoad' = "invalid"
                  /\ UNCHANGED <<gwRoutes, heap, checkers, installed>>
             ELSE LET b        == buildRoutes(v.routes, 1, <<>>)
                      ids      == idsOf(loads + 1, b.routes)
                      new      == {ids[i] : i \in 1..Len(ids)}
                      prefixes == {b.routes[i].prefix : i \in 1..Len(b.routes)}
                      removed  == {gwRoutes[i] : i \in 1..Len(gwRoutes)}
                                    \cap {rid \in DOMAIN heap :
                                            heap[rid].prefix \notin prefixes}
                  IN  /\ heap' = heap @@ objectsOf(loads + 1, b.routes)
                      /\ gwRoutes' = swapRoutes(gwRoutes, ids, b.err)
                      /\ installed' = installed \cup {gwRoutes'}
                      /\ checkers' = IF b.err THEN checkers \cup new
                                     ELSE (checkers \cup new) \ removed
                      /\ lastLoad' = IF b.err THEN "build failed" ELSE "installed"
    /\ UNCHANGED <<now, cbVars, mVars, lVars, rVars, hVars, wVars, req, probes, redis>>

Reload == ReloadFrom(Configs)

Next ==
    \/ GTick
    \/ \E r \in Reqs : ServeHTTP_Read(r)
    \/ \E r \in Reqs : ServeHTTP_Match(r)
    \/ \E r \in Reqs : serveProxy_RateLimit(r)
    \/ \E r \in Reqs : serveProxy_Next(r)
    \/ \E r \in Reqs : serveProxy_Allow(r)
    \/ \E r \in Reqs : serveProxy_Inc(r)
    \/ \E r \in Reqs : serveProxy_BadURL(r)
    \/ \E r \in Reqs : serveProxy_Forward(r)
    \/ checkOne
    \/ Reload

Spec == GInit /\ [][Next]_vars

\* ---------------------------------------------------------------------------
\* Breaker end to end: the gateway with one route, one backend and the breaker
\* {failure_threshold 50, min_requests 4, open_duration 1 s}, no reload.  The
\* clients send their requests for /a one after the other, each as soon as the
\* ones before it are waiting for the upstream or have been answered; the
\* upstream answers 200 or 500.
\* ---------------------------------------------------------------------------

TripReqs == 1..NumTrip

RT == RouteCfg(<<"/">>, <<BackendCfg("http://a", 1)>>, NilCfg,
               CBConfig(50, 4, 1, 1))

TripConfig == <<RT>>

TInit ==
    /\ now = 0
    /\ CBIdle
    /\ LIdle
    /\ RIdle
    /\ HIdle
    /\ MIdle
    /\ WIdle
    /\ LET b == buildRoutes(validate(TripConfig).routes, 1, <<>>)
       IN  /\ heap = objectsOf(0, b.routes)
           /\ gwRoutes = idsOf(0, b.routes)
           /\ checkers = {<<0, i>> : i \in 1..Len(b.routes)}
           /\ installed = {idsOf(0, b.routes)}
    /\ req = [r \in TripReqs |-> NoRequest]
    /\ loads = 0
    /\ probes = 0
    /\ lastLoad = "installed"
    /\ redis = <<>>

\* Request r is the next to be sent, or has been sent.
TripTurn(r) == \A r2 \in TripReqs : r2 < r => req[r2].pc \in {"forward", "done"}

TNext ==
    \/ GTick
    \/ \E r \in TripReqs : /\ TripTurn(r)
                            /\ ServeHTTP_Read(r)
                            /\ req'[r].path = <<"/", "a">>
    \/ \E r \in TripReqs : ServeHTTP_Match(r)
    \/ \E r \in TripReqs : serveProxy_RateLimit(r)
    \/ \E r \in TripReqs : serveProxy_Next(r)
    \/ \E r \in TripReqs : serveProxy_Allow(r)
    \/ \E r \in TripReqs : serveProxy_Inc(r)
    \/ \E r \in TripReqs : /\ serveProxy_Forward(r)
                            /\ req'[r].fwd
                            /\ ~req'[r].panicked
    \/ checkOne

SpecTrip == TInit /\ [][TNext]_vars

\* ---------------------------------------------------------------------------
\* Specification: the health checkers, with reloads and the proxy's callbacks
\* ---------------------------------------------------------------------------
\* endpoint[u] is what GET u/health gives at present: a status code, or 0 for
\* a transport error or a timeout of the 3 s client.  probes counts the probes
\* that turned a backend from not alive to alive (up to MaxProbes).

HealthStatuses == { 0, 200, 500 }

HealthURLs == { "http://a", "http://b" }

\* The ids of the route objects the loads can build, and the backend indexes.
HRouteIds == { <<n, i>> : n \in 0..MaxLoads, i \in 1..2 }

HBackends == 1..2

\* The configuration the gateway starts with and the contents the file takes:
\* the same prefixes again, a prefix removed, a route with a breaker, a
\* configuration validate rejects and one whose second route fails to build.
HealthInitialConfig == <<RL, RB>>

HealthConfigs == { <<RL, RH>>, <<RH>>, <<RA2, RZ>>, <<RA, RI>>, <<RL, RX>> }

\* The routes that have been in the route table, which requests can be in
\* flight on.
Served == UNION { {t[i] : i \in 1..Len(t)} : t \in installed }

\* checkOne with the verdict of the transport alone.
checkOneVerdictErrOnly(u, ep) == urlParseOK(u) /\ ep[u] # 0

\* Checker.checkOne, the flag it sets: false when the request cannot be built
\* or sent, else whether the status is below 500.
checkOneVerdict(u, ep) ==
    IF ~urlParseOK(u) THEN FALSE
    ELSE IF ep[u] = 0 THEN FALSE
    ELSE ep[u] < 500

HInit ==
    /\ now = 0
    /\ CBIdle
    /\ LIdle
    /\ RIdle
    /\ MIdle
    /\ WIdle
    /\ endpoint \in [HealthURLs -> HealthStatuses]
    /\ LET b == buildRoutes(validate(HealthInitialConfig).routes, 1, <<>>)
       IN  /\ heap = objectsOf(0, b.routes)
           /\ gwRoutes = idsOf(0, b.routes)
           /\ checkers = {<<0, i>> : i \in 1..Len(b.routes)}
           /\ installed = {idsOf(0, b.routes)}
    /\ req = <<>>
    /\ loads = 0
    /\ probes = 0
    /\ lastLoad = "installed"
    /\ redis = <<>>

\* The health endpoint of a backend changes its answer.
EndpointChange ==
    /\ \E u \in HealthURLs, st \in HealthStatuses :
         /\ st # endpoint[u]
         /\ endpoint' = [endpoint EXCEPT ![u] = st]
    /\ UNCHANGED <<now, cbVars, mVars, lVars, rVars, wVars, gVars>>

\* Checker.run of the running checker of route rid: the immediate check or a
\* tick of its ticker runs checkAll, which runs checkOne for backend j.
Checker_checkOne(rid, j) ==
    /\ rid \in checkers
    /\ j \in 1..Len(heap[rid].backends)
    /\ LET v == checkOneVerdict(heap[rid].backends[j].URL, endpoint)
       IN  /\ heap' = Backend_SetAlive(heap, rid, j, v)
           /\ probes' = IF v /\ ~heap[rid].backends[j].alive /\ probes < MaxProbes
                        THEN probes + 1 ELSE probes
    /\ UNCHANGED <<now, cbVars, mVars, lVars, rVars, hVars, wVars, gwRoutes, checkers, req, loads, installed, lastLoad, redis>>

\* A request forwarded to backend j of a route ends: ModifyResponse or
\* ErrorHandler records the outcome and sets the alive flag.
HCallback ==
    /\ \E rid \in Served :
         \E j \in 1..Len(heap[rid].backends), up \in {"2xx", "5xx", "error"} :
            LET u == heap[rid].backends[j].URL
                b == heap[rid].breakers[u]
                c == CASE up = "error" -> ErrorHandler(heap, rid, j, now)
                       [] up = "5xx"   -> ModifyResponse(heap, rid, j, 500, now)
                       [] OTHER        -> ModifyResponse(heap, rid, j, 200, now)
            IN  /\ urlParseOK(u)
                /\ IF b = NilBreaker THEN TRUE ELSE Len(b.window) < MaxWindow
                /\ heap' = c.h
    /\ UNCHANGED <<now, cbVars, mVars, lVars, rVars, hVars, wVars, gwRoutes, checkers, req, loads, probes, installed, lastLoad, redis>>

HNext ==
    \/ EndpointChange
    \/ \E rid \in HRouteIds, j \in HBackends : Checker_checkOne(rid, j)
    \/ HCallback
    \/ ReloadFrom(HealthConfigs)

\* Every running checker keeps ticking: its goroutine is scheduled, its
\* ticker fires every 10 s, and the 3 s client timeout ends every probe.
HFairness ==
    \A rid \in HRouteIds, j \in HBackends : WF_vars(Checker_checkOne(rid, j))

SpecHealth == HInit /\ [][HNext]_vars /\ HFairness

\* ---------------------------------------------------------------------------
\* Balancer specification: one balancer of each policy, driven by Next calls
\* while the health checker changes alive flags and requests come and go on
\* the backends.
\* ---------------------------------------------------------------------------

LBPolicies == {"round_robin", "least_conn", "weighted", "ip_hash"}

\* The weights of the backend lists the specification draws from.
LBWeights == { <<1>>, <<2, 1>>, <<1, 1, 1>>, <<5, 1, 1>> }

LBURLs == <<"http://a", "http://b", "http://c">>

\* The requests Next is called with: the headers X-Forwarded-For and
\* X-Real-IP (empty: absent), and RemoteAddr, "peer:port" of the connection.
LBRequest(x, y, h, pt) ==
    [xff |-> x, xri |-> y, peer |-> h, remoteAddr |-> h \o <<58>> \o pt]

LBRequests ==
    { LBRequest(<<>>, <<>>, IPa, PortA), LBRequest(<<>>, <<>>, IPa, PortB),
      LBRequest(<<>>, <<>>, IPb, PortA), LBRequest(IPc, <<>>, IPa, PortA),
      LBRequest(<<>>, IPb, IPa, PortB), LBRequest(IPc, IPb, IPb, PortB) }

\* The client's IP address: the forwarded address if a proxy gave one, else
\* the peer's address.
clientAddr(q) ==
    IF q.xff # <<>> THEN q.xff ELSE IF q.xri # <<>> THEN q.xri ELSE q.peer

LBClients == {IPa, IPb, IPc}

NoPicks == [picks |-> <<>>, changed |-> FALSE, byClient |-> [c \in LBClients |-> 0]]

\* No Next call has been made since the balancer was made or last changed.
NoCall == [op |-> None]

LBInit ==
    /\ now = 0
    /\ \E alg \in LBPolicies, ws \in LBWeights :
         lb = loadbalancer_New(alg, [j \in 1..Len(ws) |-> BackendCfg(LBURLs[j], ws[j])])
    /\ lbHist = NoPicks
    /\ lbLast = NoCall
    /\ CBIdle
    /\ RIdle
    /\ HIdle
    /\ MIdle
    /\ WIdle
    /\ GIdle

\* A caller calls Next.  The selections of round_robin and weighted are kept
\* in order; of ip_hash, the last selection for each client address.  lbLast
\* holds the call until the balancer's backends next change.
LBNext ==
    /\ lb.counter < MaxCalls
    /\ Len(lbHist.picks) < MaxCalls
    /\ \E q \in LBRequests :
         LET n == Balancer_Next(lb, q)
             c == clientAddr(q)
         IN  /\ lb.alg # "ip_hash" => q = CHOOSE q0 \in LBRequests : TRUE
             /\ lb' = [lb EXCEPT !.counter = n.counter, !.current = n.current]
             /\ lbLast' = [op |-> "next", pre |-> lb, q |-> q,
                           res |-> IF n.err THEN 0 ELSE n.j,
                           prev |-> lbHist.byClient[c]]
             /\ lbHist' = [lbHist EXCEPT
                             !.picks = IF lb.alg \in {"round_robin", "weighted"} /\ ~n.err
                                       THEN Append(@, n.j) ELSE @,
                             !.byClient[c] = IF lb.alg = "ip_hash" /\ ~n.err
                                             THEN n.j ELSE @]
    /\ UNCHANGED <<now, cbVars, mVars, rVars, hVars, wVars, gVars>>

\* The health checker (or the proxy) changes a backend's alive flag.
LBSetAlive ==
    /\ \E j \in 1..Len(lb.backends) :
         lb' = [lb EXCEPT !.backends[j].alive = ~@]
    /\ lbHist' = [NoPicks EXCEPT !.changed = TRUE]
    /\ lbLast' = NoCall
    /\ UNCHANGED <<now, cbVars, mVars, rVars, hVars, wVars, gVars>>

\* A request on a backend starts (Inc) or ends (Dec); only least_conn reads
\* the count.
LBInflight ==
    /\ lb.alg = "least_conn"
    /\ \E j \in 1..Len(lb.backends) :
         \/ /\ lb.backends[j].inflight < MaxInflight
            /\ lb' = [lb EXCEPT !.backends[j].inflight = @ + 1]
         \/ /\ lb.backends[j].inflight > 0
            /\ lb' = [lb EXCEPT !.backends[j].inflight = @ - 1]
    /\ lbLast' = NoCall
    /\ UNCHANGED <<now, lbHist, cbVars, mVars, rVars, hVars, wVars, gVars>>

LNext == LBNext \/ LBSetAlive \/ LBInflight

SpecLB == LBInit /\ [][LNext]_vars

\* ---------------------------------------------------------------------------
\* Balancer specification with Update: the same, and the balancer's backend
\* list is replaced through Balancer.Update.
\* ---------------------------------------------------------------------------

\* The backend configurations Update is called with: URLs kept, dropped,
\* added and reordered, weights changed.
LBUpdateCfgs ==
    { <<BackendCfg("http://b", 1), BackendCfg("http://a", 3)>>,
      <<BackendCfg("http://a", 1), BackendCfg("http://d", 2),
        BackendCfg("http://c", 1)>>,
      <<BackendCfg("http://d", 1)>>,
      <<BackendCfg("http://c", 2), BackendCfg("http://b", 2)>> }

LBUpdate ==
    /\ \E cfgs \in LBUpdateCfgs :
         /\ lb' = Balancer_Update(lb, cfgs)
         /\ lbLast' = [op |-> "update", pre |-> lb, cfgs |-> cfgs]
    /\ lbHist' = [NoPicks EXCEPT !.changed = TRUE]
    /\ UNCHANGED <<now, cbVars, mVars, rVars, hVars, wVars, gVars>>

LUNext == LBNext \/ LBSetAlive \/ LBInflight \/ LBUpdate

SpecLBUpdate == LBInit /\ [][LUNext]_vars

\* ---------------------------------------------------------------------------
\* Limiter specification: one local limiter of either algorithm, driven by
\* Allow calls of two clients while time passes.
\* ---------------------------------------------------------------------------

SlidingCfg(rate, secs) == RateLimitCfg("sliding_window", rate, FALSE, secs)

\* The configurations the specification draws from; validate accepts a rate
\* and a burst of 0 (the keys left out).
LmtConfigs ==
    { TokenBucketCfg(1, 2), TokenBucketCfg(2, 1), TokenBucketCfg(3, 0),
      TokenBucketCfg(0, 1),
      SlidingCfg(1, 1), SlidingCfg(2, 2), SlidingCfg(2, 1), SlidingCfg(0, 1) }

\* The requests: two clients, neither behind a proxy.
LmtRequests ==
    { LBRequest(<<>>, <<>>, IPa, PortA), LBRequest(<<>>, <<>>, IPb, PortA) }

LmtKeys == {keyFn(q) : q \in LmtRequests}

LmtInit ==
    /\ now = 0
    /\ \E cfg \in LmtConfigs : lmt = ratelimiter_New(cfg).l
    /\ lmtHist = [k \in LmtKeys |-> <<>>]
    /\ lmtLast = NoCall
    /\ lmtProc = None
    /\ CBIdle
    /\ LIdle
    /\ HIdle
    /\ MIdle
    /\ WIdle
    /\ GIdle

LmtTick ==
    /\ now < LmtMaxTime
    /\ now' = now + 1
    /\ UNCHANGED <<cbVars, mVars, lVars, rVars, hVars, wVars, gVars>>

\* One Allow call.  The bucket's mutex makes the calls on one key atomic.
LmtAllow ==
    /\ \A k \in LmtKeys : Len(lmtHist[k]) < MaxAllows
    /\ \E q \in LmtRequests :
         LET a == Limiter_Allow(lmt, q, now)
             k == keyFn(q)
         IN  /\ lmt' = a.l
             /\ lmtLast' = [op |-> "allow", pre |-> lmt, key |-> k,
                            res |-> a.res, retryAfter |-> a.retryAfter]
             /\ lmtHist' = [lmtHist EXCEPT ![k] =
                              Append(@, [res |-> a.res, at |-> now,
                                         retryAfter |-> a.retryAfter])]
    /\ UNCHANGED <<now, lmtProc, cbVars, mVars, lVars, hVars, wVars, gVars>>

LmtNext == LmtTick \/ LmtAllow

SpecLimiter == LmtInit /\ [][LmtNext]_vars

\* ---------------------------------------------------------------------------
\* Specification: the distributed limiter on a reachable store
\* ---------------------------------------------------------------------------
\* Gateway instances share the store and each sends its own clock's
\* milliseconds, so the timestamps of a key's requests come in any order and
\* may repeat.

StoreTimes == { 0, 1, 1000, 1001 }

MaxStoreCalls == 3

StoreLimits == { 0, 1, 2 }

StoreInit ==
    /\ now = 0
    /\ \E limit \in StoreLimits :
         lmt = newRedisLimiter(WithRedis(SlidingCfg(limit, 1), "redis://r")).l
    /\ lmtHist = [k \in LmtKeys |-> <<>>]
    /\ lmtLast = NoCall
    /\ lmtProc = None
    /\ redis = <<>>
    /\ gwRoutes = <<>> /\ heap = <<>> /\ checkers = {} /\ req = <<>>
    /\ loads = 0 /\ probes = 0 /\ installed = {} /\ lastLoad = None
    /\ CBIdle
    /\ LIdle
    /\ HIdle
    /\ MIdle
    /\ WIdle

\* One Allow call of some instance, answered by the store in time.
StoreAllow ==
    /\ \E q \in LmtRequests, nowMs \in StoreTimes :
         LET k == keyFn(q)
             a == redisLimiter_AllowAt(lmt, redis, q, nowMs, "reply")
         IN  /\ Len(lmtHist[k]) < MaxStoreCalls
             /\ redis' = a.store
             /\ lmtLast' = [op |-> "allow", pre |-> redis, key |-> k,
                            res |-> a.res, retryAfter |-> a.retryAfter]
             /\ lmtHist' = [lmtHist EXCEPT ![k] =
                              Append(@, [res |-> a.res, at |-> nowMs,
                                         retryAfter |-> a.retryAfter])]
    /\ UNCHANGED <<now, lmt, lmtProc, cbVars, mVars, lVars, hVars, wVars, gwRoutes, heap, checkers, req, loads, probes, installed, lastLoad>>

StoreNext == StoreAllow

SpecStore == StoreInit /\ [][StoreNext]_vars

\* ---------------------------------------------------------------------------
\* Specification: a local limiter called by concurrent goroutines
\* ---------------------------------------------------------------------------
\* Every request runs serveProxy, and so Allow, on its own goroutine.  Here
\* lmt.buckets maps a key to the bucket object the map points to, and lmtProc
\* holds the bucket objects (objs: key, value and holder of the bucket's
\* mutex), the holder of the map's write lock (mapW) and, for each goroutine,
\* where it is in Allow: the key, the bucket getOrCreate returned (b), whether
\* its first lookup missed, the time and the value it read under the mutex.

Goroutines == 1..2

MaxConcCalls == 2

ConcMaxTime == 1

ConcConfigs ==
    { TokenBucketCfg(1, 1), TokenBucketCfg(1, 2), SlidingCfg(1, 1),
      SlidingCfg(2, 1) }

\* sync.Mutex.Lock and RWMutex.Lock return once nobody holds the lock; 0 is
\* no holder.
mutexNeverHeld(holder) == TRUE

mutexFree(holder) == holder = 0

\* The bucket getOrCreate and swGetOrCreate make for a key.
newBucket(l, t) ==
    IF l.kind = "token_bucket" THEN [tokens |-> l.burst, lastFill |-> t]
    ELSE <<>>

\* The locked part of getOrCreate without the second lookup.
getOrCreateLockedNoRecheck(buckets, objs, l, key, t) ==
    [buckets |-> [k \in DOMAIN buckets \cup {key} |->
                    IF k = key THEN Len(objs) + 1 ELSE buckets[k]],
     objs |-> Append(objs, [key |-> key, val |-> newBucket(l, t), mu |-> 0]),
     b |-> Len(objs) + 1]

\* getOrCreate and swGetOrCreate under the map's write lock: the second
\* lookup, else the new bucket is made and put into the map.
getOrCreateLocked(buckets, objs, l, key, t) ==
    IF key \in DOMAIN buckets
    THEN [buckets |-> buckets, objs |-> objs, b |-> buckets[key]]
    ELSE [buckets |-> [k \in DOMAIN buckets \cup {key} |->
                         IF k = key THEN Len(objs) + 1 ELSE buckets[k]],
          objs |-> Append(objs, [key |-> key, val |-> newBucket(l, t), mu |-> 0]),
          b |-> Len(objs) + 1]

\* The part of Allow between bucket.mu.Lock() and the return, on the bucket
\* value val, with time.Now() = t.
bucketAllow(l, val, t) ==
    LET view == [l EXCEPT !.buckets = [k \in {"bucket"} |-> val]]
        a    == IF l.kind = "token_bucket" THEN tbAllow(view, "bucket", t)
                ELSE swAllow(view, "bucket", t)
    IN  [res |-> a.res, retryAfter |-> a.retryAfter, val |-> a.l.buckets["bucket"]]

IdleProc ==
    [pc |-> "idle", key |-> <<>>, b |-> 0, missed |-> FALSE, at |-> 0,
     val |-> <<>>, calls |-> 0]

ConcInit ==
    /\ now = 0
    /\ \E cfg \in ConcConfigs : lmt = ratelimiter_New(cfg).l
    /\ lmtHist = [k \in LmtKeys |-> <<>>]
    /\ lmtLast = NoCall
    /\ lmtProc = [procs |-> [g \in Goroutines |-> IdleProc], objs |-> <<>>,
                  mapW |-> 0]
    /\ CBIdle
    /\ LIdle
    /\ HIdle
    /\ MIdle
    /\ WIdle
    /\ GIdle

ConcTick ==
    /\ now < ConcMaxTime
    /\ now' = now + 1
    /\ UNCHANGED <<cbVars, mVars, lVars, rVars, hVars, wVars, gVars>>

\* A request reaches Allow on goroutine g: key := l.keyFn(r).
ConcCall(g) ==
    /\ lmtProc.procs[g].pc = "idle"
    /\ lmtProc.procs[g].calls < MaxConcCalls
    /\ \E q \in LmtRequests :
         lmtProc' = [lmtProc EXCEPT !.procs[g] =
                       [IdleProc EXCEPT !.pc = "lookup", !.key = keyFn(q),
                                        !.calls = lmtProc.procs[g].calls + 1]]
    /\ UNCHANGED <<now, lmt, lmtHist, lmtLast, cbVars, mVars, lVars, hVars, wVars, gVars>>

\* getOrCreate, the lookup under the read lock.
ConcLookup(g) ==
    /\ lmtProc.procs[g].pc = "lookup"
    /\ mutexFree(lmtProc.mapW)
    /\ LET k == lmtProc.procs[g].key
       IN  lmtProc' = [lmtProc EXCEPT !.procs[g] =
                         IF k \in DOMAIN lmt.buckets
                         THEN [@ EXCEPT !.pc = "lock", !.b = lmt.buckets[k]]
                         ELSE [@ EXCEPT !.pc = "wlock", !.missed = TRUE]]
    /\ UNCHANGED <<now, lmt, lmtHist, lmtLast, cbVars, mVars, lVars, hVars, wVars, gVars>>

\* getOrCreate, l.mu.Lock().
ConcWLock(g) ==
    /\ lmtProc.procs[g].pc = "wlock"
    /\ mutexFree(lmtProc.mapW)
    /\ lmtProc' = [lmtProc EXCEPT !.procs[g].pc = "insert", !.mapW = g]
    /\ UNCHANGED <<now, lmt, lmtHist, lmtLast, cbVars, mVars, lVars, hVars, wVars, gVars>>

\* getOrCreate, from the second lookup to the deferred l.mu.Unlock().
ConcInsert(g) ==
    /\ lmtProc.procs[g].pc = "insert"
    /\ LET r == getOrCreateLocked(lmt.buckets, lmtProc.objs, lmt,
                                  lmtProc.procs[g].key, now)
       IN  /\ lmt' = [lmt EXCEPT !.buckets = r.buckets]
           /\ lmtProc' = [lmtProc EXCEPT !.objs = r.objs, !.mapW = 0,
                                         !.procs[g].pc = "lock",
                                         !.procs[g].b = r.b]
    /\ UNCHANGED <<now, lmtHist, lmtLast, cbVars, mVars, lVars, hVars, wVars, gVars>>

\* Allow, bucket.mu.Lock().
ConcLock(g) ==
    /\ lmtProc.procs[g].pc = "lock"
    /\ mutexFree(lmtProc.objs[lmtProc.procs[g].b].mu)
    /\ lmtProc' = [lmtProc EXCEPT !.procs[g].pc = "load",
                                  !.objs[lmtProc.procs[g].b].mu = g]
    /\ UNCHANGED <<now, lmt, lmtHist, lmtLast, cbVars, mVars, lVars, hVars, wVars, gVars>>

\* Allow reads the clock and the bucket.
ConcLoad(g) ==
    /\ lmtProc.procs[g].pc = "load"
    /\ lmtProc' = [lmtProc EXCEPT
                     !.procs[g].pc = "store",
                     !.procs[g].at = now,
                     !.procs[g].val = lmtProc.objs[lmtProc.procs[g].b].val]
    /\ UNCHANGED <<now, lmt, lmtHist, lmtLast, cbVars, mVars, lVars, hVars, wVars, gVars>>

\* Allow writes the bucket and returns; the deferred bucket.mu.Unlock().
ConcStore(g) ==
    /\ lmtProc.procs[g].pc = "store"
    /\ LET p == lmtProc.procs[g]
           a == bucketAllow(lmt, p.val, p.at)
       IN  /\ lmtProc' = [lmtProc EXCEPT !.procs[g].pc = "idle",
                                         !.objs[p.b].val = a.val,
                                         !.objs[p.b].mu = 0]
           /\ lmtLast' = [op |-> "allow", pre |-> lmt, key |-> p.key,
                          res |-> a.res, retryAfter |-> a.retryAfter]
           /\ lmtHist' = [lmtHist EXCEPT ![p.key] =
                            Append(@, [res |-> a.res, at |-> p.at,
                                       retryAfter |-> a.retryAfter])]
    /\ UNCHANGED <<now, lmt, cbVars, mVars, lVars, hVars, wVars, gVars>>

ConcNext ==
    \/ ConcTick
    \/ \E g \in Goroutines : ConcCall(g)
    \/ \E g \in Goroutines : ConcLookup(g)
    \/ \E g \in Goroutines : ConcWLock(g)
    \/ \E g \in Goroutines : ConcInsert(g)
    \/ \E g \in Goroutines : ConcLock(g)
    \/ \E g \in Goroutines : ConcLoad(g)
    \/ \E g \in Goroutines : ConcStore(g)

SpecLmtConc == ConcInit /\ [][ConcNext]_vars

\* ---------------------------------------------------------------------------
\* Breaker specification: one breaker, driven by every order of Allow,
\* RecordSuccess and RecordFailure calls while time passes.
\* ---------------------------------------------------------------------------

\* The requests a half-open episode has admitted (the Allow that moved the
\* breaker from Open to HalfOpen included) and the outcomes recorded in it.
\* The count of successes stops at one more than half_open_requests.
NoEpisode == [admitted |-> 0, successes |-> 0, failures |-> 0]

episodeAfterAllow(e, pre, post, ok) ==
    IF pre.state = stateOpen /\ post.state = stateHalfOpen
    THEN [admitted |-> 1, successes |-> 0, failures |-> 0]
    ELSE IF pre.state = stateHalfOpen /\ ok
         THEN [e EXCEPT !.admitted = @ + 1]
         ELSE e

episodeAfterRecord(e, pre, success) ==
    IF pre.state # stateHalfOpen THEN e
    ELSE IF success
         THEN [e EXCEPT !.successes =
                 IF @ > pre.cfg.HalfOpenRequests THEN @ ELSE @ + 1]
         ELSE [e EXCEPT !.failures = @ + 1]

\* The breaker configurations the specification draws from.  The all-zero
\* configuration takes every default (threshold 50, min_requests 20).
CBConfigs ==
    { CBConfig(50, 2, 2, 1), CBConfig(100, 3, 1, 2), CBConfig(34, 3, 1, 1),
      CBConfig(0, 0, 0, 0) }

CBInit ==
    /\ now = 0
    /\ \E cfg \in CBConfigs :
         /\ cb = NewBreaker(cfg)
         /\ cbEnv \in (IF cfg = CBConfig(0, 0, 0, 0) THEN {"burst"} ELSE {"any"})
    /\ cbLast = [op |-> None, pre |-> cb, ok |-> TRUE, at |-> 0]
    /\ cbCalls = 0
    /\ cbEpisode = NoEpisode
    /\ cbFlight = None
    /\ LIdle
    /\ RIdle
    /\ HIdle
    /\ MIdle
    /\ WIdle
    /\ GIdle

\* Time passes (any environment but a burst, which happens in zero time).
CBTick ==
    /\ cbEnv = "any"
    /\ now < MaxTime
    /\ now' = now + 1
    /\ UNCHANGED <<cbVars, mVars, lVars, rVars, hVars, wVars, gVars>>

CBAllow ==
    /\ cbEnv = "any"
    /\ LET r == Breaker_Allow(cb, now)
       IN  /\ cb' = r.b
           /\ cbLast' = [op |-> "allow", pre |-> cb, ok |-> r.ok, at |-> now]
           /\ cbEpisode' = episodeAfterAllow(cbEpisode, cb, r.b, r.ok)
    /\ UNCHANGED <<now, cbEnv, cbCalls, cbFlight, mVars, lVars, rVars, hVars, wVars, gVars>>

CBRecordSuccess ==
    /\ cbEnv = "any"
    /\ Len(cb.window) < MaxWindow
    /\ cb' = Breaker_RecordSuccess(cb, now)
    /\ cbLast' = [op |-> "success", pre |-> cb, ok |-> TRUE, at |-> now]
    /\ cbEpisode' = episodeAfterRecord(cbEpisode, cb, TRUE)
    /\ UNCHANGED <<now, cbEnv, cbCalls, cbFlight, mVars, lVars, rVars, hVars, wVars, gVars>>

CBRecordFailure ==
    /\ \/ cbEnv = "any" /\ Len(cb.window) < MaxWindow
       \/ cbEnv = "burst" /\ cbCalls <= cb.cfg.MinRequests
    /\ cb' = Breaker_RecordFailure(cb, now)
    /\ cbLast' = [op |-> "failure", pre |-> cb, ok |-> TRUE, at |-> now]
    /\ cbEpisode' = episodeAfterRecord(cbEpisode, cb, FALSE)
    /\ cbCalls' = IF cbEnv = "burst" THEN cbCalls + 1 ELSE cbCalls
    /\ UNCHANGED <<now, cbEnv, cbFlight, mVars, lVars, rVars, hVars, wVars, gVars>>

CBNext == CBTick \/ CBAllow \/ CBRecordSuccess \/ CBRecordFailure

SpecBreaker == CBInit /\ [][CBNext]_vars

\* ---------------------------------------------------------------------------
\* Specification: one breaker and the requests in flight through it
\* ---------------------------------------------------------------------------
\* serveProxy calls Allow before it forwards and RecordSuccess or
\* RecordFailure when the upstream has answered (part_001:243-299); requests
\* of one backend overlap, so an outcome arrives any time after its Allow.
\* cbFlight holds the admitted requests whose outcome is still to come: stale
\* says the breaker has moved to Open since the request was admitted, probe
\* that it was admitted in the current or a past half-open episode.

ProbeMaxTime == 4

MaxFlight == 2

ProbeConfigs == { CBConfig(50, 1, 1, 1), CBConfig(50, 2, 1, 2) }

\* The requests in flight after the breaker went from pre to post: a move to
\* Open makes them all stale.
flightsAfter(f, pre, post) ==
    IF pre.state # stateOpen /\ post.state = stateOpen
    THEN [i \in 1..Len(f) |-> [f[i] EXCEPT !.stale = TRUE]]
    ELSE f

\* The sequence f without its i-th element.
removeAt(f, i) == SubSeq(f, 1, i - 1) \o SubSeq(f, i + 1, Len(f))

PInit ==
    /\ now = 0
    /\ \E cfg \in ProbeConfigs : cb = NewBreaker(cfg)
    /\ cbEnv = "any"
    /\ cbLast = [op |-> None, pre |-> cb, ok |-> TRUE, at |-> 0]
    /\ cbCalls = 0
    /\ cbEpisode = NoEpisode
    /\ cbFlight = <<>>
    /\ LIdle
    /\ RIdle
    /\ HIdle
    /\ MIdle
    /\ WIdle
    /\ GIdle

PTick ==
    /\ now < ProbeMaxTime
    /\ now' = now + 1
    /\ UNCHANGED <<cbVars, mVars, lVars, rVars, hVars, wVars, gVars>>

\* A request reaches serveProxy's Allow; admitted, it is in flight.
PAllow ==
    /\ Len(cbFlight) < MaxFlight
    /\ Len(cb.window) + Len(cbFlight) < MaxWindow
    /\ LET r == Breaker_Allow(cb, now)
       IN  /\ cb' = r.b
           /\ cbLast' = [op |-> "allow", pre |-> cb, ok |-> r.ok, at |-> now]
           /\ cbFlight' = IF r.ok
                          THEN Append(cbFlight,
                                      [stale |-> FALSE,
                                       probe |-> r.b.state = stateHalfOpen])
                          ELSE cbFlight
    /\ UNCHANGED <<now, cbEnv, cbCalls, cbEpisode, mVars, lVars, rVars, hVars, wVars, gVars>>

\* The upstream answers the i-th request in flight: ModifyResponse or
\* ErrorHandler records its outcome.
PRecord ==
    \E i \in 1..Len(cbFlight), success \in BOOLEAN :
       LET b2 == IF success THEN Breaker_RecordSuccess(cb, now)
                 ELSE Breaker_RecordFailure(cb, now)
       IN  /\ cb' = b2
           /\ cbLast' = [op |-> IF success THEN "success" ELSE "failure",
                         pre |-> cb, ok |-> TRUE, at |-> now,
                         stale |-> cbFlight[i].stale,
                         probe |-> cbFlight[i].probe]
           /\ cbFlight' = flightsAfter(removeAt(cbFlight, i), cb, b2)
           /\ UNCHANGED <<now, cbEnv, cbCalls, cbEpisode, mVars, lVars, rVars, hVars, wVars, gVars>>

PNext == PTick \/ PAllow \/ PRecord

SpecProbe == PInit /\ [][PNext]_vars

\* Every request in flight is answered or fails in the end: the reverse proxy
\* calls ModifyResponse or ErrorHandler for every request it forwards, at the
\* latest when the per-request timeout ends the round trip.
PFairness == WF_vars(PRecord)

SpecProbeFair == PInit /\ [][PNext]_vars /\ PFairness

\* ---------------------------------------------------------------------------
\* Properties of the breaker
\* ---------------------------------------------------------------------------

\* The observations of w made in the last 10 s before t.
Last10(w, t) ==
    LET recent(o) == o.at >= t - rollingWindow
    IN  SelectSeq(w, recent)

\* C9: a Closed breaker admits every Allow, and it moves to Open exactly at a
\* RecordFailure after which the observations of the last 10 s number at least
\* min_requests with failures*100/count >= failure_threshold; the window is
\* then empty and openAt is the time of the call.  With threshold 50 and
\* min_requests 20, 19 failures in a row leave it Closed and the 20th opens
\* it.  RecordSuccess never opens the breaker.
C9_ClosedTripsExactlyAtThreshold ==
    LET pre  == cbLast.pre
        obs  == Last10(Append(pre.window, [at |-> cbLast.at, success |-> FALSE]),
                       cbLast.at)
        trip == /\ Len(obs) >= pre.cfg.MinRequests
                /\ (failuresIn(obs) * 100) \div Len(obs) >= pre.cfg.FailureThreshold
    IN  /\ (cbLast.op = "allow" /\ pre.state = stateClosed)
              => (cbLast.ok /\ cb = pre)
        /\ (cbLast.op # None /\ pre.state = stateClosed)
              => ((cb.state = stateOpen) <=> (cbLast.op = "failure" /\ trip))
        /\ (cbLast.op # None /\ pre.state = stateClosed /\ cb.state = stateOpen)
              => (cb.window = <<>> /\ cb.openAt = cbLast.at)
        /\ (cbLast.op = "success" /\ cb.state = stateOpen)
              => pre.state = stateOpen
        /\ (cbEnv = "burst" /\ cb.cfg.FailureThreshold = 50 /\ cb.cfg.MinRequests = 20)
              => /\ cbCalls <= 19 => cb.state = stateClosed
                 /\ cbCalls >= 20 => cb.state = stateOpen

\* A failure trips a Closed breaker whose window also holds a success.
C9_Witness ==
    /\ cbLast.op = "failure"
    /\ cbLast.pre.state = stateClosed
    /\ cb.state = stateOpen
    /\ \E i \in 1..Len(cbLast.pre.window) : cbLast.pre.window[i].success

\* C10: an Open breaker denies every Allow made while now - openAt is at most
\* open_duration and is left unchanged by it; an Allow made when
\* now - openAt exceeds open_duration moves it to HalfOpen with both probe
\* counters zero and admits the request.
C10_OpenDeniesUntilDeadline ==
    LET pre == cbLast.pre
    IN  (cbLast.op = "allow" /\ pre.state = stateOpen)
          => IF cbLast.at - pre.openAt <= pre.cfg.OpenDurationSeconds
             THEN ~cbLast.ok /\ cb = pre
             ELSE /\ cbLast.ok
                  /\ cb.state = stateHalfOpen
                  /\ cb.halfOpenTotal = 0
                  /\ cb.halfOpenFailures = 0

\* An Allow has moved an Open breaker to HalfOpen.
C10_Witness ==
    /\ cbLast.op = "allow"
    /\ cbLast.pre.state = stateOpen
    /\ cb.state = stateHalfOpen
    /\ cbLast.ok

\* C11: while a breaker is Open, RecordSuccess and RecordFailure leave it
\* (state, openAt, window, probe counters) as it was, and every Open breaker
\* has an empty window.
C11_OpenIgnoresRecords ==
    /\ (cbLast.op \in {"success", "failure"} /\ cbLast.pre.state = stateOpen)
          => cb = cbLast.pre
    /\ cb.state = stateOpen => cb.window = <<>>

\* An outcome was recorded on an Open breaker some time after it opened.
C11_Witness ==
    /\ cbLast.op \in {"success", "failure"}
    /\ cbLast.pre.state = stateOpen
    /\ cbLast.at > cbLast.pre.openAt
    /\ cb.state = stateOpen

\* C12: in one half-open episode, the Allow that moved the breaker from Open
\* to HalfOpen included, the breaker admits at most half_open_requests
\* requests.
C12_EpisodeAdmitsAtMostHalfOpenRequests ==
    cb.state = stateHalfOpen => cbEpisode.admitted <= cb.cfg.HalfOpenRequests

\* C13: in HalfOpen one RecordFailure moves the breaker to Open with openAt
\* the time of the failure, and an Open breaker admits nothing until more than
\* open_duration has passed since openAt.
C13_HalfOpenFailureReopens ==
    /\ (cbLast.op = "failure" /\ cbLast.pre.state = stateHalfOpen)
          => /\ cb.state = stateOpen
             /\ cb.openAt = cbLast.at
             /\ cb.window = <<>>
    /\ (cb.state = stateOpen /\ now - cb.openAt <= cb.cfg.OpenDurationSeconds)
          => ~Breaker_Allow(cb, now).ok

\* The first failure of a half-open episode that had already seen a success
\* reopened the breaker, later than it had opened before.
C13_Witness ==
    /\ cbLast.op = "failure"
    /\ cbLast.pre.state = stateHalfOpen
    /\ cbEpisode.successes > 0
    /\ cbEpisode.failures = 1
    /\ cb.state = stateOpen
    /\ cb.openAt > cbLast.pre.openAt

\* C14: in HalfOpen, once half_open_requests successes and no failure have
\* been recorded, an Allow leaves the breaker Closed with an empty window.
C14_ClosedAfterHalfOpenRequestsSuccesses ==
    (/\ cbLast.op = "allow"
     /\ cbLast.pre.state = stateHalfOpen
     /\ cbEpisode.successes >= cb.cfg.HalfOpenRequests
     /\ cbEpisode.failures = 0)
        => (cb.state = stateClosed /\ cb.window = <<>>)

\* ---------------------------------------------------------------------------
\* Properties of the limiters
\* ---------------------------------------------------------------------------

\* The calls of a key's history that were admitted.
Admitted(h) == {i \in 1..Len(h) : h[i].res = "ok"}

\* C21: token bucket with rate r and burst b, for a key whose bucket has just
\* been created: b requests arriving with no time elapsing are all admitted
\* and the (b+1)th is denied with retry_after 1/r (in nanoseconds, r >= 1).
C21_BurstThenDeny ==
    lmt.kind = "token_bucket" =>
        \A k \in LmtKeys :
           LET h == lmtHist[k]
           IN  \A i \in 1..Len(h) :
                  h[i].at = h[1].at =>
                     /\ i <= lmt.burst => h[i].res = "ok"
                     /\ i = lmt.burst + 1 =>
                          /\ h[i].res = "limited"
                          /\ lmt.rate >= 1 => h[i].retryAfter = Second \div lmt.rate

\* A burst of three at the creation of a bucket of burst 2 and rate 1: the
\* third was denied.
C21_Witness ==
    /\ lmt.kind = "token_bucket"
    /\ lmt.burst = 2
    /\ \E k \in LmtKeys :
          /\ Len(lmtHist[k]) = 3
          /\ lmtHist[k][3].at = lmtHist[k][1].at
          /\ lmtHist[k][3].res = "limited"
          /\ lmtHist[k][3].retryAfter = Second

\* At most r admitted requests have their timestamps inside any interval of
\* length w.
AtMostRateInWindow(h, r, w) ==
    \A t0 \in 0..LmtMaxTime :
       Cardinality({i \in Admitted(h) : t0 <= h[i].at /\ h[i].at <= t0 + w}) <= r

\* When the first r+1 requests arrive within one window, the first r are
\* admitted and the (r+1)th is denied.
FirstRateAdmitted(h, r, w) ==
    (Len(h) >= r + 1 /\ h[r + 1].at <= h[1].at + w) =>
        /\ \A i \in 1..r : h[i].res = "ok"
        /\ h[r + 1].res = "limited"

\* Every call is admitted or denied, a denial with 0 <= retry_after <= w.
DeniedWithinWindow(h, w) ==
    \A i \in 1..Len(h) :
       \/ h[i].res = "ok"
       \/ h[i].res = "limited" /\ 0 <= h[i].retryAfter /\ h[i].retryAfter <= w

\* The last call, if it was not admitted, added nothing to the key's window:
\* what the bucket holds was there before.
DeniedNotAdded ==
    (lmtLast.op = "allow" /\ lmtLast.res # "ok") =>
        LET old == IF lmtLast.key \in DOMAIN lmtLast.pre.buckets
                   THEN lmtLast.pre.buckets[lmtLast.key] ELSE <<>>
            new == lmt.buckets[lmtLast.key]
        IN  /\ Len(new) <= Len(old)
            /\ new = SubSeq(old, Len(old) - Len(new) + 1, Len(old))

\* C22: local sliding window with rate r and window w, for one key: at most
\* r requests are admitted with timestamps inside any interval of length w;
\* when r+1 requests arrive within one window exactly the first r are
\* admitted and the (r+1)th is denied with 0 <= retry_after <= w; a denied
\* request is not added to the window.
C22_SlidingWindowBound ==
    lmt.kind = "sliding_window" =>
        /\ \A k \in LmtKeys :
              /\ AtMostRateInWindow(lmtHist[k], lmt.rate, lmt.window)
              /\ FirstRateAdmitted(lmtHist[k], lmt.rate, lmt.window)
              /\ DeniedWithinWindow(lmtHist[k], lmt.window)
        /\ DeniedNotAdded

\* ---------------------------------------------------------------------------
\* Properties of the balancers (specification SpecLB)
\* ---------------------------------------------------------------------------

\* The number of times j occurs in picks[a..b].
CountIn(picks, a, b, j) == Cardinality({i \in a..b : picks[i] = j})

\* C16: under round_robin with N alive backends, any k*N consecutive Next
\* calls made while the alive set and the backend list do not change return
\* each alive backend exactly k times.
C16_RoundRobinEven ==
    lb.alg = "round_robin" =>
        LET al    == healthy(lb.backends)
            N     == Len(al)
            picks == lbHist.picks
        IN  \A a \in 1..Len(picks), k \in 1..Len(picks) :
               (N > 0 /\ a + k * N - 1 <= Len(picks)) =>
                  \A i \in 1..N : CountIn(picks, a, a + k * N - 1, al[i]) = k

\* Three backends of which two are alive have shared two full rounds, the
\* counter not having started the window at a multiple of 2.
C16_Witness ==
    /\ lb.alg = "round_robin"
    /\ Len(lb.backends) = 3
    /\ Len(healthy(lb.backends)) = 2
    /\ Len(lbHist.picks) >= 4
    /\ (lb.counter - Len(lbHist.picks)) % 2 = 1

\* The weights of the backends, and their sum.
weightsOf(bs) == [j \in 1..Len(bs) |-> bs[j].Weight]

RECURSIVE sumTo(_, _)
sumTo(ws, n) == IF n = 0 THEN 0 ELSE ws[n] + sumTo(ws, n - 1)

\* Backend j was selected at every call from a to b.
RunOf(picks, a, b, j) == \A i \in a..b : picks[i] = j

\* Every W consecutive selections hold backend i exactly w_i times.
WeightedWindows(picks, ws) ==
    LET W == sumTo(ws, Len(ws))
    IN  \A a \in 1..Len(picks) :
           a + W - 1 <= Len(picks) =>
              \A i \in 1..Len(ws) : CountIn(picks, a, a + W - 1, i) = ws[i]

\* No backend is selected more than w_i times in a row.
WeightedRuns(picks, ws) ==
    \A i \in 1..Len(ws), a \in 1..Len(picks) :
       a + ws[i] <= Len(picks) => ~RunOf(picks, a, a + ws[i], i)

\* A,A,B,A,C,A,A
Cycle511 == <<1, 1, 2, 1, 3, 1, 1>>

WeightedCycle511(picks, ws) ==
    ws = <<5, 1, 1>> =>
       \A i \in 1..Len(picks) : picks[i] = Cycle511[((i - 1) % 7) + 1]

\* C17 as stated: under weighted with all backends alive, any W consecutive
\* Next calls return backend i exactly w_i times, no backend is selected more
\* than w_i times in a row, and for weights 5,1,1 the selections from the
\* initial state are A,A,B,A,C,A,A, repeating.
C17_WeightedSmooth ==
    (lb.alg = "weighted" /\ ~lbHist.changed) =>
        LET ws == weightsOf(lb.backends)
        IN  /\ WeightedWindows(lbHist.picks, ws)
            /\ WeightedRuns(lbHist.picks, ws)
            /\ WeightedCycle511(lbHist.picks, ws)

\* C17 amended: the bound on runs holds when the balancer has at least two
\* backends (a single backend is selected at every call); the windows and
\* the 5,1,1 sequence are as stated.
C17_WeightedSmoothAmended ==
    (lb.alg = "weighted" /\ ~lbHist.changed) =>
        LET ws == weightsOf(lb.backends)
        IN  /\ WeightedWindows(lbHist.picks, ws)
            /\ Len(ws) >= 2 => WeightedRuns(lbHist.picks, ws)
            /\ WeightedCycle511(lbHist.picks, ws)

\* Weights 5,1,1, all alive from the start, into the second cycle.
C17_Witness ==
    /\ lb.alg = "weighted"
    /\ ~lbHist.changed
    /\ weightsOf(lb.backends) = <<5, 1, 1>>
    /\ Len(lbHist.picks) >= 9

\* C18: least_conn returns an alive backend whose inflight is minimal among
\* the alive backends, the earliest in the list among those with the minimal
\* inflight.
C18_LeastConnFirstMinimum ==
    (lbLast.op = "next" /\ lb.alg = "least_conn") =>
        LET bs    == lbLast.pre.backends
            alive == {k \in 1..Len(bs) : bs[k].alive}
            j     == lbLast.res
        IN  IF alive = {} THEN j = 0
            ELSE /\ j \in alive
                 /\ \A k \in alive :
                      /\ bs[k].inflight >= bs[j].inflight
                      /\ bs[k].inflight = bs[j].inflight => k >= j

\* The second backend was chosen: the first is busier, the third is as idle
\* as the second.
C18_Witness ==
    /\ lbLast.op = "next"
    /\ lb.alg = "least_conn"
    /\ lbLast.res = 2
    /\ Len(lb.backends) = 3
    /\ \A k \in 1..3 : lb.backends[k].alive
    /\ lb.backends[1].inflight > lb.backends[2].inflight
    /\ lb.backends[3].inflight = lb.backends[2].inflight

\* C19: under ip_hash two requests with the same client IP address are given
\* the same backend when the alive set has not changed between them.
C19_SameClientSameBackend ==
    (lbLast.op = "next" /\ lb.alg = "ip_hash" /\ lbLast.prev # 0)
        => lbLast.res = lbLast.prev

\* ---------------------------------------------------------------------------
\* Properties of route matching
\* ---------------------------------------------------------------------------

\* p is a prefix of s, character by character.
IsPrefixOf(p, s) ==
    Len(p) <= Len(s) /\ \A k \in 1..Len(p) : s[k] = p[k]

\* C2: the route chosen is one whose prefix is a prefix of the path and is
\* longest among those; among equally long matching prefixes it is the first
\* in table order; no route is chosen (404) exactly when no prefix matches.
C2_LongestPrefixFirstWins ==
    LET cands == {i \in 1..Len(mRoutes) : IsPrefixOf(mRoutes[i], mPath)}
    IN  IF cands = {} THEN mMatched = 0
        ELSE /\ mMatched \in cands
             /\ \A j \in cands :
                  /\ Len(mRoutes[j]) <= Len(mRoutes[mMatched])
                  /\ Len(mRoutes[j]) = Len(mRoutes[mMatched]) => mMatched <= j

\* The table holds the matched prefix twice, after a shorter matching prefix:
\* the request was given to the earlier of the two equal routes.
C2_Witness ==
    /\ mMatched > 1
    /\ \E j \in 1..Len(mRoutes) :
         j > mMatched /\ mRoutes[j] = mRoutes[mMatched]
    /\ \E j \in 1..Len(mRoutes) :
         j < mMatched /\ IsPrefixOf(mRoutes[j], mPath)

\* ---------------------------------------------------------------------------
\* Properties of the configuration watcher
\* ---------------------------------------------------------------------------

\* Nothing is left to do: every event is read, the timer is not armed, the
\* channel is empty and the reload loop waits for the next config.
WatchQuiet ==
    /\ ~done
    /\ fswEvents = 0
    /\ ~debounce
    /\ updates = <<>>
    /\ reloadPc = "recv"

\* C8: once file changes stop and everything pending is delivered, the config
\* the reload loop received last and applied is the newest content of the
\* file, when that content is valid.
C8_NewestValidConfigApplied ==
    (WatchQuiet /\ file.valid) => (newCfg = file.id /\ applied = file.id)

\* ---------------------------------------------------------------------------
\* Properties of the gateway (specification Spec)
\* ---------------------------------------------------------------------------

StageOrder == <<"match", "limit", "pick", "allow", "forward">>

Done(r) == req[r].pc = "done"

\* C1: every request ends in exactly one outcome -- a forwarded upstream
\* response, 404, 429, 502 or 503 -- and its stages ran in the order match,
\* rate limit, balancer pick, breaker allow, forward, the stage that rejected
\* it being the last one it reached.
C1_OneOutcomeStagesInOrder ==
    \A r \in Reqs :
        LET q == req[r]
            n == Len(q.stages)
        IN  /\ q.stages = SubSeq(StageOrder, 1, n)
            /\ Done(r) =>
                 \/ q.fwd /\ n = 5
                 \/ ~q.fwd /\ q.status = 404 /\ n = 1
                 \/ ~q.fwd /\ q.status = 429 /\ n = 2
                 \/ ~q.fwd /\ q.status = 503 /\ n \in {3, 4}
                 \/ ~q.fwd /\ q.status = 502 /\ n \in {4, 5}

\* The requests in progress on backend j of route object rid: between
\* backend.Inc() and the deferred backend.Dec().
InProgress(rid, j) ==
    {r \in Reqs : req[r].pc = "forward" /\ req[r].route = rid /\ req[r].backend = j}

\* C3: for every backend, under any interleaving of requests, upstream
\* failures, panics and reloads, inflight is never negative, is the number of
\* requests in progress on the backend (0 when there is none), and every
\* request that has left the dispatcher has decremented exactly as often as it
\* incremented (at most once).
C3_InflightMatched ==
    /\ \A rid \in DOMAIN heap :
         \A j \in 1..Len(heap[rid].backends) :
            /\ heap[rid].backends[j].inflight >= 0
            /\ heap[rid].backends[j].inflight = Cardinality(InProgress(rid, j))
    /\ \A r \in Reqs :
         /\ req[r].incs <= 1
         /\ Done(r) => req[r].decs = req[r].incs

\* A request that incremented, panicked inside the proxy and was recovered,
\* on a backend of a table that has since been replaced, with the backend's
\* inflight back at 0.
C3_Witness ==
    \E r \in Reqs :
        /\ Done(r) /\ req[r].panicked /\ req[r].incs = 1 /\ req[r].decs = 1
        /\ loads > 0 /\ req[r].snap # gwRoutes
        /\ heap[req[r].route].backends[req[r].backend].inflight = 0

\* C4: every request that the breaker admitted and that was forwarded caused
\* exactly one call of RecordSuccess or RecordFailure on the breaker of its
\* backend.
C4_OneBreakerRecordPerForward ==
    \A r \in Reqs :
        (Done(r) /\ Len(req[r].stages) = 5) => req[r].recs = 1

\* The pairs (route of the table, backend of the route) of a route table.
backendsOf(h, table) ==
    {<<table[i], j>> : i \in 1..Len(table), j \in 1..3}
      \cap {p \in (DOMAIN h) \X (1..3) : p[2] <= Len(h[p[1]].backends)}

\* C5: a successful reload preserves, for every (route prefix, backend URL)
\* present before and after it, the backend's alive flag and inflight count
\* and the breaker (state, window, probe counters).
C5_ReloadPreservesBackends ==
    [][ (loads' = loads + 1 /\ lastLoad' = "installed") =>
          \A old \in backendsOf(heap, gwRoutes), new \in backendsOf(heap', gwRoutes') :
             LET ro == heap[old[1]]
                 rn == heap'[new[1]]
                 bo == ro.backends[old[2]]
                 bn == rn.backends[new[2]]
             IN  (ro.prefix = rn.prefix /\ bo.URL = bn.URL) =>
                    /\ bn.alive = bo.alive
                    /\ bn.inflight = bo.inflight
                    /\ rn.breakers[bn.URL] = ro.breakers[bo.URL]
      ]_vars

\* C6: each request reads the route table once and is served entirely against
\* that snapshot: the snapshot is a table that was installed whole, the
\* request's route is the snapshot's longest-prefix match for its path, and
\* its backend is one of that route's, whatever reloads happen meanwhile.
C6_ServedAgainstSnapshot ==
    \A r \in Reqs :
        LET q == req[r]
        IN  /\ q.pc # "idle" => q.snap \in installed
            /\ q.pc \in {"limit", "pick", "allow", "inc", "forward"} =>
                 LET i == matchRoute(prefixesOf(heap, q.snap), q.path)
                 IN  i > 0 /\ q.route = q.snap[i]
            /\ q.pc \in {"allow", "inc", "forward"} =>
                 q.backend \in 1..Len(heap[q.route].backends)
            /\ (Done(r) /\ Len(q.stages) = 1) =>
                 matchRoute(prefixesOf(heap, q.snap), q.path) = 0

\* A request that read the old table, was overtaken by a swap that changes
\* what its path matches, and got its upstream's response through the old
\* route.
C6_Witness ==
    \E r \in Reqs :
        LET q == req[r]
        IN  /\ Done(r) /\ q.fwd /\ q.status = 200
            /\ q.snap # gwRoutes
            /\ q.route \notin {gwRoutes[i] : i \in 1..Len(gwRoutes)}

\* C7: a load that is rejected -- the file is invalid, or building one of its
\* routes fails -- leaves the route table and every object of it (backends'
\* alive flags and inflight counts, breakers, rate-limit buckets) as they
\* were, with the table's health checkers still running.
C7_RejectedLoadChangesNothing ==
    [][ (loads' = loads + 1 /\ lastLoad' \in {"invalid", "build failed"}) =>
          /\ gwRoutes' = gwRoutes
          /\ \A rid \in DOMAIN heap : heap'[rid] = heap[rid]
          /\ checkers \subseteq checkers'
          /\ req' = req
      ]_vars

\* A load failed in buildRoutes after one route had been built, while the
\* initial table, its limiter holding a bucket, is still the gateway's.
C7_Witness ==
    /\ lastLoad = "build failed"
    /\ gwRoutes = idsOf(0, InitialConfig)
    /\ \E rid \in DOMAIN heap : rid[1] = loads /\ loads > 0
    /\ \E i \in 1..Len(gwRoutes) :
         heap[gwRoutes[i]].rl # noopLimiter /\ DOMAIN heap[gwRoutes[i]].rl.buckets # {}

\* The inflight counts of every backend of every route object.
inflightOf(h) ==
    [rid \in DOMAIN h |->
       [j \in 1..Len(h[rid].backends) |-> h[rid].backends[j].inflight]]

\* Request r takes its balancer step: Next fails, and the request is answered
\* 503, exactly when no backend of its route is alive; otherwise the backend
\* returned is one that was alive when Next read it.
PickStep(r) ==
    (req[r].pc = "pick" /\ req'[r].pc # "pick") =>
        LET rt    == heap[req[r].route]
            alive == {j \in 1..Len(rt.backends) : rt.backends[j].alive}
        IN  IF alive = {}
            THEN /\ req'[r].pc = "done"
                 /\ req'[r].status = 503
                 /\ req'[r].backend = 0
            ELSE /\ req'[r].pc = "allow"
                 /\ req'[r].backend \in alive

\* A step of request r that answers 503 changes no inflight count.
RejectStep(r) ==
    (req[r].pc \in {"pick", "allow"} /\ req'[r].pc = "done") =>
        /\ req'[r].status = 503
        /\ inflightOf(heap') = inflightOf(heap)

\* A request the gateway answered 503 went no further than the balancer or
\* the breaker, was not forwarded, and made no Inc, Dec or breaker record.
Rejected503(r) ==
    (Done(r) /\ req[r].status = 503 /\ ~req[r].fwd) =>
        /\ req[r].stages \in {<<"match", "limit", "pick">>,
                              <<"match", "limit", "pick", "allow">>}
        /\ req[r].incs = 0
        /\ req[r].decs = 0
        /\ req[r].recs = 0

\* C20: for each policy Next fails with ErrNoHealthyBackend exactly when no
\* backend of the route is alive and otherwise returns a backend that was
\* alive when read; a request answered 503 because no backend is alive or
\* because the breaker of the selected backend denied it is never forwarded,
\* leaves every inflight count unchanged and records no breaker outcome.
C20_NoBackendNoForward ==
    /\ [](\A r \in Reqs : Rejected503(r))
    /\ [][\A r \in Reqs : PickStep(r) /\ RejectStep(r)]_vars

\* One request has been answered 503 by the balancer (its route's backend
\* was marked not alive by the failure of an earlier request) under a policy
\* other than round robin.
C20_Witness ==
    \E r \in Reqs :
       /\ Done(r)
       /\ req[r].status = 503
       /\ req[r].stages = <<"match", "limit", "pick">>
       /\ heap[req[r].route].alg # "round_robin"
       /\ \E r2 \in Reqs : Done(r2) /\ req[r2].recs > 0
                             /\ req[r2].route = req[r].route

\* Request r2 was forwarded and its outcome was a failure: an upstream status
\* of 500 or more, or a transport error answered 502.
FailedForward(r2) ==
    /\ Done(r2)
    /\ "forward" \in {req[r2].stages[i] : i \in 1..Len(req[r2].stages)}
    /\ req[r2].status >= 500
    /\ req[r2].recs >= 1

\* Four forwarded requests have failed, and r is the only other request sent.
AfterFourFailures(r) ==
    /\ Cardinality({r2 \in TripReqs \ {r} : FailedForward(r2)}) = 4
    /\ \A r2 \in TripReqs \ {r} : FailedForward(r2) \/ req[r2].pc = "idle"

\* The next request reaches the breaker ...
TripPickStep(r) ==
    (req[r].pc = "pick" /\ req'[r].pc # "pick" /\ AfterFourFailures(r)) =>
        req'[r].pc = "allow"

\* ... which answers 503 'circuit open' until more than open_duration has
\* passed since it opened, and then admits the request and is HalfOpen.
TripAllowStep(r) ==
    (req[r].pc = "allow" /\ req'[r].pc # "allow" /\ AfterFourFailures(r)) =>
        LET rid == req[r].route
            u   == heap[rid].backends[req[r].backend].URL
            b   == heap[rid].breakers[u]
        IN  IF now - b.openAt > b.cfg.OpenDurationSeconds
            THEN /\ req'[r].pc = "inc"
                 /\ heap'[rid].breakers[u].state = stateHalfOpen
            ELSE /\ req'[r].pc = "done"
                 /\ req'[r].status = 503
                 /\ req'[r].incs = 0

\* C15: end to end, with breaker {failure_threshold 50, min_requests 4,
\* open_duration 1 s}: after four forwarded requests with failed outcomes the
\* next request is answered 503 'circuit open' (by the breaker stage) without
\* reaching the backend, and once more than open_duration has passed one
\* request is admitted, the breaker being HalfOpen.  (How the breaker closes
\* from HalfOpen is C14's subject, in the breaker specification.)
C15_TripThenCircuitOpen ==
    [][\A r \in TripReqs : TripPickStep(r) /\ TripAllowStep(r)]_vars

\* C23: when the distributed limiter's call to its store fails or exceeds
\* its 50 ms bound, Allow admits the request: the request goes on to the
\* balancer and is not answered 429, nor with an error, because of the store.
C23_StoreFailureFailsOpen ==
    \A r \in DOMAIN req :
       req[r].store \in {"error", "timeout"} =>
          /\ req[r].status # 429
          /\ \/ req[r].pc = "pick" /\ req[r].status = 0
             \/ Len(req[r].stages) >= 3 /\ req[r].stages[3] = "pick"

\* A request whose limiter could not reach the store has been forwarded, and
\* one whose limiter's call timed out has reached the balancer.
C23_Witness ==
    \E r, r2 \in DOMAIN req :
       /\ req[r].store = "error"
       /\ Done(r)
       /\ req[r].fwd
       /\ req[r2].store = "timeout"
       /\ Len(req[r2].stages) >= 3

\* ---------------------------------------------------------------------------
\* Request ids and the proxy's callbacks
\* ---------------------------------------------------------------------------

\* The response of request r carries the X-Request-ID the claim asks for: the
\* inbound one when present, else the fresh one of this request.
CarriesRequestID(r) ==
    /\ req[r].wRequestID # <<>>
    /\ req[r].xRequestID # <<>> => req[r].wRequestID = req[r].xRequestID
    /\ req[r].xRequestID = <<>> => req[r].wRequestID = uuidNew(r)

\* The responses written by a route's handler chain carry the id.
RoutedCarriesRequestID ==
    \A r \in DOMAIN req :
       req[r].pc = "done" /\ req[r].status # 404 => CarriesRequestID(r)

\* C24: every response of the gateway, whatever the outcome, carries
\* X-Request-ID equal to the inbound header when present, else a fresh UUID.
C24_EveryResponseCarriesRequestID ==
    \A r \in DOMAIN req : req[r].pc = "done" => CarriesRequestID(r)

\* Request r is forwarded in this step: proxy.ServeHTTP runs and the handler
\* returns.
ForwardStep(r) ==
    /\ req[r].pc = "forward"
    /\ req'[r].pc = "done"
    /\ req'[r].stages = Append(req[r].stages, "forward")

LocalLimiter(l) == l.kind \in {"token_bucket", "sliding_window"}

\* The policy of a local limiter: everything but the buckets.
policyOf(l) == [l EXCEPT !.buckets = <<>>]

\* Route n of the new table continues route o of the old one: the same prefix
\* and the same rate-limit policy.
SamePolicy(o, n) ==
    /\ heap'[n].prefix = heap[o].prefix
    /\ LocalLimiter(heap[o].rl)
    /\ LocalLimiter(heap'[n].rl)
    /\ policyOf(heap'[n].rl) = policyOf(heap[o].rl)

\* C30: a key's bucket, once created, is retained with its state for the
\* process lifetime: after a reload that leaves a route's rate-limit policy
\* unchanged, what its keys have consumed still counts against them.
C30_BucketsSurviveReload ==
    [][gwRoutes' # gwRoutes =>
         \A i \in 1..Len(gwRoutes), k \in 1..Len(gwRoutes') :
            SamePolicy(gwRoutes[i], gwRoutes'[k]) =>
               heap'[gwRoutes'[k]].rl.buckets = heap[gwRoutes[i]].rl.buckets]_vars

\* ---------------------------------------------------------------------------
\* The breaker's rolling window
\* ---------------------------------------------------------------------------

\* The timestamps of a window are non-decreasing.
NonDecreasing(w) == \A i \in 1..(Len(w) - 1) : w[i].at <= w[i + 1].at

\* C29: in every state of a breaker the timestamps of its window are
\* non-decreasing and no observation older than 10 s relative to the current
\* time is in the window.
C29_WindowFresh ==
    /\ NonDecreasing(cb.window)
    /\ \A i \in 1..Len(cb.window) : now - cb.window[i].at <= rollingWindow

\* C29 amended: the timestamps are non-decreasing and no observation is older
\* than 10 s relative to the newest observation of the window, the time of
\* the last record.
C29_WindowFreshAtRecord ==
    /\ NonDecreasing(cb.window)
    /\ \A i \in 1..Len(cb.window) :
          cb.window[Len(cb.window)].at - cb.window[i].at <= rollingWindow

\* A record in Closed has evicted an observation that had aged out.
C29_Witness ==
    /\ cbLast.op \in {"success", "failure"}
    /\ cbLast.pre.state = stateClosed
    /\ cb.state = stateClosed
    /\ Len(cbLast.pre.window) >= 1
    /\ Len(cb.window) <= Len(cbLast.pre.window)
    /\ cbLast.at - cbLast.pre.window[1].at > rollingWindow

\* ---------------------------------------------------------------------------
\* The breaker and the requests in flight
\* ---------------------------------------------------------------------------

\* The last call was the RecordSuccess that closed a half-open breaker.
ClosedBySuccess ==
    /\ cbLast.op = "success"
    /\ cbLast.pre.state = stateHalfOpen
    /\ cb.state = stateClosed

\* C27: the breaker moves from HalfOpen to Closed only at a record_success()
\* at which every request admitted in the current half-open episode has
\* reported success; it never closes while a probe of that episode is still
\* in flight.
C27_NoCloseWithProbeInFlight ==
    ClosedBySuccess =>
       \A i \in 1..Len(cbFlight) : ~(cbFlight[i].probe /\ ~cbFlight[i].stale)

\* C28: the outcome of a request that was in flight when the breaker moved
\* to Open has no effect on the breaker's state, window or probe counters,
\* whenever it arrives.
C28_StaleOutcomeIgnored ==
    cbLast.op \in {"success", "failure"} /\ cbLast.stale => cb = cbLast.pre

\* The same while the breaker is still Open when the outcome arrives.
StaleOutcomeIgnoredInOpen ==
    /\ cbLast.op \in {"success", "failure"}
    /\ cbLast.stale
    /\ cbLast.pre.state = stateOpen
    => cb = cbLast.pre

\* ---------------------------------------------------------------------------
\* Health checks
\* ---------------------------------------------------------------------------

\* Route rid is in the current route table.
InTable(rid) == \E i \in 1..Len(gwRoutes) : gwRoutes[i] = rid

\* Backend j of route rid exists.
HasBackend(rid, j) == rid \in DOMAIN heap /\ j \in 1..Len(heap[rid].backends)

\* Its health endpoint answers with a status below 500.
EndpointHealthy(rid, j) ==
    LET u == heap[rid].backends[j].URL
    IN  u \in HealthURLs /\ endpoint[u] # 0 /\ endpoint[u] < 500

\* A backend of a route of the current table is not alive.
DownInTable(rid, j) ==
    HasBackend(rid, j) /\ InTable(rid) /\ ~heap[rid].backends[j].alive

\* It is alive again, or its endpoint has stopped answering below 500, or a
\* reload has taken its route out of the table.
RestoredOrExcused(rid, j) ==
    /\ HasBackend(rid, j)
    /\ IF heap[rid].backends[j].alive THEN TRUE
       ELSE IF ~EndpointHealthy(rid, j) THEN TRUE
       ELSE ~InTable(rid)

\* A probe of a backend whose endpoint fails or answers 500 or above sets
\* alive = false.
FailedProbeMarksDown ==
    [][\A rid \in HRouteIds, j \in HBackends :
         Checker_checkOne(rid, j) /\ ~EndpointHealthy(rid, j) =>
            ~heap'[rid].backends[j].alive]_vars

\* C26: a backend of a route of the current table that is not alive, and
\* whose health endpoint answers below 500 from then on, eventually becomes
\* alive again, under fairness of the route's checker and across reloads; a
\* probe that fails or returns 500 or above sets alive = false.  ("P and
\* always H lead to Q" is "P leads to Q or not H".)
C26_CheckerRestoresAlive ==
    /\ \A rid \in HRouteIds, j \in HBackends :
          DownInTable(rid, j) ~> RestoredOrExcused(rid, j)
    /\ FailedProbeMarksDown

\* A probe has turned a backend of the current table from not alive to
\* alive, after a reload.
C26_Witness ==
    /\ probes >= 1
    /\ loads >= 1
    /\ \E rid \in DOMAIN heap, j \in HBackends :
          /\ HasBackend(rid, j)
          /\ InTable(rid)
          /\ heap[rid].backends[j].alive
          /\ EndpointHealthy(rid, j)

\* ---------------------------------------------------------------------------
\* The local limiters: outcomes of Allow and the token bucket's bound
\* ---------------------------------------------------------------------------

\* C38: for every rate-limit configuration validate accepts, rate 0 and
\* burst 0 included, a local limiter's Allow admits or denies with a finite,
\* non-negative retry_after; it fails in no other way.
C38_AllowAdmitsOrDenies ==
    lmtLast.op = "allow" =>
        \/ lmtLast.res = "ok"
        \/ /\ lmtLast.res = "limited"
           /\ lmtLast.retryAfter # durationOfInf
           /\ lmtLast.retryAfter >= 0

\* The same for the configurations with a rate of at least 1.
AllowAdmitsOrDeniesPositiveRate ==
    lmt.rate >= 1 => C38_AllowAdmitsOrDenies

\* The tokens of key k's bucket before the last call, a missing bucket being
\* created full.
tokensBefore(k) ==
    IF k \in DOMAIN lmtLast.pre.buckets THEN lmtLast.pre.buckets[k].tokens
    ELSE lmt.burst

\* C40: token bucket with rate r and burst b, for one key: at most b + r*T
\* requests are admitted in any interval of length T, tokens stays within
\* [0, b], and a denied request consumes no token.
C40_TokenBucketBound ==
    lmt.kind = "token_bucket" =>
        /\ \A k \in LmtKeys : \A t0 \in 0..LmtMaxTime, t1 \in 0..LmtMaxTime :
              t0 <= t1 =>
                 Cardinality({i \in Admitted(lmtHist[k]) :
                                t0 <= lmtHist[k][i].at /\ lmtHist[k][i].at <= t1})
                    <= lmt.burst + lmt.rate * (t1 - t0)
        /\ \A k \in DOMAIN lmt.buckets :
              0 <= lmt.buckets[k].tokens /\ lmt.buckets[k].tokens <= lmt.burst
        /\ (lmtLast.op = "allow" /\ lmtLast.res = "limited") =>
              lmt.buckets[lmtLast.key].tokens >= tokensBefore(lmtLast.key)

\* A key of a bucket with rate 1 and burst 2 was denied and, after a refill,
\* admitted again.
C40_Witness ==
    /\ lmt.kind = "token_bucket"
    /\ lmt.rate = 1
    /\ lmt.burst = 2
    /\ \E k \in LmtKeys : \E i \in 1..Len(lmtHist[k]), j \in 1..Len(lmtHist[k]) :
          /\ i < j
          /\ lmtHist[k][i].res = "limited"
          /\ lmtHist[k][j].res = "ok"
          /\ lmtHist[k][j].at > lmtHist[k][i].at

\* ---------------------------------------------------------------------------
\* The local limiters under concurrent calls
\* ---------------------------------------------------------------------------

\* One bucket object per key, and every goroutine that has a bucket has the
\* one the map points to for its key.
OneBucketPerKey ==
    /\ \A i \in 1..Len(lmtProc.objs), j \in 1..Len(lmtProc.objs) :
          lmtProc.objs[i].key = lmtProc.objs[j].key => i = j
    /\ \A g \in Goroutines :
          lmtProc.procs[g].b # 0 =>
             /\ lmtProc.procs[g].key \in DOMAIN lmt.buckets
             /\ lmt.buckets[lmtProc.procs[g].key] = lmtProc.procs[g].b

\* No key has been admitted more often than its policy permits.
AdmissionsWithinPolicy ==
    \A k \in LmtKeys :
       IF lmt.kind = "token_bucket"
       THEN \A t0 \in 0..ConcMaxTime, t1 \in 0..ConcMaxTime :
               t0 <= t1 =>
                  Cardinality({i \in Admitted(lmtHist[k]) :
                                 t0 <= lmtHist[k][i].at /\ lmtHist[k][i].at <= t1})
                     <= lmt.burst + lmt.rate * (t1 - t0)
       ELSE AtMostRateInWindow(lmtHist[k], lmt.rate, lmt.window)

\* The bucket of key k: the object the map points to, or none.
bucketOf(buckets, objs, k) ==
    IF k \in DOMAIN buckets THEN <<objs[buckets[k]]>> ELSE <<>>

\* A step of goroutine g leaves the bucket of every key but its own as it
\* was.
OtherKeysUnchanged ==
    \A g \in Goroutines :
       lmtProc'.procs[g] # lmtProc.procs[g] =>
          \A k \in LmtKeys :
             k # lmtProc'.procs[g].key =>
                bucketOf(lmt'.buckets, lmtProc'.objs, k)
                   = bucketOf(lmt.buckets, lmtProc.objs, k)

\* C31: concurrent first requests for one key create exactly one bucket and
\* all work on it; admissions for one key are serialised, so concurrent
\* Allow calls admit no more than the bucket's state permits; an Allow on one
\* key leaves the bucket of every other key unchanged.
C31_OneBucketSerialised ==
    /\ [](OneBucketPerKey /\ AdmissionsWithinPolicy)
    /\ [][OtherKeysUnchanged]_vars

\* Both goroutines missed the first lookup of the same key, and both have
\* finished their Allow on the one bucket of that key.
C31_Witness ==
    /\ \A g \in Goroutines :
          /\ lmtProc.procs[g].pc = "idle"
          /\ lmtProc.procs[g].missed
          /\ lmtProc.procs[g].calls = 1
    /\ lmtProc.procs[1].key = lmtProc.procs[2].key
    /\ Len(lmtProc.objs) = 1
    /\ Len(lmtHist[lmtProc.procs[1].key]) = 2

\* ---------------------------------------------------------------------------
\* The distributed limiter's bound
\* ---------------------------------------------------------------------------

\* At most limit admitted requests of history h have their timestamps in any
\* interval [t0, t0 + windowMs).
AtMostLimitInWindow(h, limit, windowMs) ==
    \A t0 \in StoreTimes :
       Cardinality({i \in Admitted(h) :
                      t0 <= h[i].at /\ h[i].at < t0 + windowMs}) <= limit

\* The timestamps of history h are pairwise distinct.
DistinctTimestamps(h) ==
    \A i \in 1..Len(h), j \in 1..Len(h) : h[i].at = h[j].at => i = j

\* C32: with the store reachable, the distributed sliding window admits, for
\* one key and every sequence of millisecond timestamps, distinct or not, at
\* most limit requests with timestamps inside any interval of length window.
C32_StoreWindowBound ==
    \A k \in LmtKeys : AtMostLimitInWindow(lmtHist[k], lmt.rate, lmt.window * 1000)

\* The same for the keys whose requests came with distinct timestamps.
StoreWindowBoundDistinct ==
    \A k \in LmtKeys :
       DistinctTimestamps(lmtHist[k]) =>
          AtMostLimitInWindow(lmtHist[k], lmt.rate, lmt.window * 1000)

\* ---------------------------------------------------------------------------
\* Balancer.Update and the weighted balancer's current values
\* ---------------------------------------------------------------------------

\* The record of URL u in the backend list bs, as a list of none or one.
recordOf(bs, u) ==
    SelectSeq(bs, LAMBDA b : b.URL = u)

\* C33: after Update(cfgs), under each of the four policies, the balancer's
\* backends are the URLs of cfgs in configuration order; a backend whose URL
\* was there before keeps its alive flag and inflight count and takes its
\* weight from cfgs; a backend with a new URL is alive with nothing in flight.
C33_UpdateKeepsRecords ==
    lbLast.op = "update" =>
        /\ Len(lb.backends) = Len(lbLast.cfgs)
        /\ \A j \in 1..Len(lbLast.cfgs) :
              LET b   == lb.backends[j]
                  old == recordOf(lbLast.pre.backends, lbLast.cfgs[j].URL)
              IN  /\ b.URL = lbLast.cfgs[j].URL
                  /\ b.Weight = lbLast.cfgs[j].Weight
                  /\ IF old # <<>>
                     THEN b.alive = old[1].alive /\ b.inflight = old[1].inflight
                     ELSE b.alive /\ b.inflight = 0

\* An Update kept a backend that was not alive, kept one with requests in
\* flight and added a backend with a new URL.
C33_Witness ==
    /\ lbLast.op = "update"
    /\ \E j \in 1..Len(lb.backends) :
          ~lb.backends[j].alive /\ recordOf(lbLast.pre.backends, lb.backends[j].URL) # <<>>
    /\ \E j \in 1..Len(lb.backends) :
          lb.backends[j].inflight > 0
    /\ \E j \in 1..Len(lb.backends) :
          recordOf(lbLast.pre.backends, lb.backends[j].URL) = <<>>

\* The sum of the first n current values.
RECURSIVE sumCurrent(_, _)
sumCurrent(cur, n) == IF n = 0 THEN 0 ELSE cur[n] + sumCurrent(cur, n - 1)

\* C37: in the weighted balancer the current values sum to 0 in every state,
\* after any Next calls, alive-flag changes and Update calls; a Next that
\* finds no alive backend changes no current value.
C37_CurrentSumsToZero ==
    lb.alg = "weighted" =>
        /\ Len(lb.current) = Len(lb.backends)
        /\ sumCurrent(lb.current, Len(lb.current)) = 0
        /\ (lbLast.op = "next" /\ lbLast.res = 0) => lb.current = lbLast.pre.current

\* After an Update that brought in a new backend, Next calls have moved the
\* current values away from 0.
C37_Witness ==
    /\ lb.alg = "weighted"
    /\ \E j \in 1..Len(lb.backends) :
          lb.backends[j].URL = "http://d" /\ lb.current[j] # 0
    /\ lbLast.op = "next"

\* ---------------------------------------------------------------------------
\* The health checkers across reloads
\* ---------------------------------------------------------------------------

\* The routes of the current table.
CurrentRoutes == {gwRoutes[i] : i \in 1..Len(gwRoutes)}

\* C34: after any sequence of successful and failed reloads, the running
\* health checkers are exactly one per route of the current table: none for a
\* route that was replaced or removed, none for a route that was never
\* installed.
C34_OneCheckerPerCurrentRoute ==
    checkers = CurrentRoutes

\* Every route of the current table has its checker running.
CurrentRoutesAreChecked ==
    CurrentRoutes \subseteq checkers

\* A reload that installed its table leaves no checker of a route whose
\* prefix is gone from the table.
RemovedPrefixUnchecked ==
    lastLoad = "installed" =>
        \A rid \in checkers :
            \E cur \in CurrentRoutes : heap[cur].prefix = heap[rid].prefix

\* ---------------------------------------------------------------------------
\* least_conn under concurrent requests
\* ---------------------------------------------------------------------------

\* Request r has been given a backend and has not finished.
Selected(r) == req[r].pc \in {"allow", "inc", "forward"}

\* Route rid balances by least_conn over two backends, both alive, with
\* nothing in flight but what request r1 has added.
TwoAliveIdleBut(rid, r1) ==
    /\ heap[rid].alg = "least_conn"
    /\ Len(heap[rid].backends) = 2
    /\ \A j \in 1..2 :
          /\ heap[rid].backends[j].alive
          /\ heap[rid].backends[j].inflight =
                IF req[r1].pc = "forward" /\ req[r1].backend = j THEN 1 ELSE 0

\* Request r2 is given its backend in this step, while request r1 holds one of
\* the same route.
SelectsAfter(r1, r2) ==
    /\ r1 # r2
    /\ Selected(r1)
    /\ req[r2].pc = "pick"
    /\ req'[r2].pc = "allow"
    /\ req[r2].route = req[r1].route

\* C36: under least_conn a later selection sees the earlier selection's
\* inflight increment: when a route has two alive idle backends and a second
\* request is given its backend before the first has finished, the two are
\* sent to different backends.
C36_ConcurrentSelectionsDiffer ==
    [][\A r1, r2 \in Reqs :
          (SelectsAfter(r1, r2) /\ TwoAliveIdleBut(req[r1].route, r1))
              => req'[r2].backend # req[r1].backend]_vars

\* The same for a first request that has passed its Inc.
SelectionsDifferAfterInc ==
    [][\A r1, r2 \in Reqs :
          (SelectsAfter(r1, r2) /\ TwoAliveIdleBut(req[r1].route, r1)
             /\ req[r1].pc = "forward")
              => req'[r2].backend # req[r1].backend]_vars

\* ---------------------------------------------------------------------------
\* Who changes the alive flag
\* ---------------------------------------------------------------------------

\* The alive flag of backend j of route rid goes from false to true in this
\* step.
AliveRises(rid, j) ==
    /\ rid \in DOMAIN heap
    /\ j \in 1..Len(heap[rid].backends)
    /\ ~heap[rid].backends[j].alive
    /\ heap'[rid].backends[j].alive

\* C39: the alive flag is changed only by the health checker and by the
\* dispatcher's error handling, which sets it false: a flag that is false
\* stays false until a health probe of that backend succeeds, so every step
\* that makes it true is a successful checkOne of that backend.
C39_AliveRisesByProbeOnly ==
    [][\A rid \in HRouteIds, j \in HBackends :
          AliveRises(rid, j) =>
              /\ Checker_checkOne(rid, j)
              /\ checkOneVerdict(heap[rid].backends[j].URL, endpoint)]_vars

\* A flag that is false does not become true while the backend's health
\* endpoint fails and no request to the backend is answered.
AliveRisesByProbeOrResponse ==
    [][\A rid \in HRouteIds, j \in HBackends :
          AliveRises(rid, j) =>
              \/ /\ Checker_checkOne(rid, j)
                 /\ checkOneVerdict(heap[rid].backends[j].URL, endpoint)
              \/ HCallback]_vars

\* ---------------------------------------------------------------------------
\* The half-open breaker does not stay denying
\* ---------------------------------------------------------------------------

\* The breaker is HalfOpen and has counted half_open_requests probes: Allow
\* denies.
HalfOpenDenying ==
    /\ cb.state = stateHalfOpen
    /\ cb.halfOpenTotal = cb.cfg.HalfOpenRequests

\* A request admitted by the HalfOpen breaker that denies is still in flight.
HalfOpenDenyingHasFlight ==
    HalfOpenDenying => cbFlight # <<>>

\* C35: given that every forwarded request records its outcome in the end, a
\* breaker in HalfOpen with probe_total equal to half_open_requests reaches
\* Closed or Open in the end.
C35_HalfOpenResolves ==
    HalfOpenDenying ~> (cb.state \in {stateClosed, stateOpen})

\* The HalfOpen breaker with all its probes counted has just denied a request.
C35_Witness ==
    /\ HalfOpenDenying
    /\ cbLast.op = "allow"
    /\ ~cbLast.ok
    /\ cbLast.pre = cb

====
